---- MODULE Spec2Model ----
(***************************************************************************)
(* Model of the dinit service management engine (src/src/service.cc).      *)
(*                                                                         *)
(* The engine is single threaded.  Every handler of service.cc is an       *)
(* operator that maps an engine state (a record with one field per member  *)
(* of service_record / base_process_service / service_set) to the engine   *)
(* state the handler leaves behind; a call in the code is an application   *)
(* of the callee's operator.  An action is one reactor dispatch (a control *)
(* request, a child exit, an exec-status pipe event, a timer expiry) or    *)
(* one iteration of the queue loops of process_queues.                     *)
(***************************************************************************)
EXTENDS Integers, Sequences, FiniteSets, TLC

(***************************************************************************)
(* Bounds of the model.                                                    *)
(***************************************************************************)
MaxCommands == 3      \* control requests issued in one behaviour
MaxAdvances == 1      \* times the monotonic clock is seen to advance

(***************************************************************************)
(* The loaded service description.  Services are numbered; depends_on[r]   *)
(* is the ordered hard dependency list of r, soft is the list of soft      *)
(* dependency edges <<from, to>>.                                          *)
(***************************************************************************)
Svc == {1, 2, 3}

NoSvc == {}

BaseCfg ==
    [ name |-> "chain",
      record_type |-> <<"INTERNAL", "INTERNAL", "INTERNAL">>,
      depends_on |-> << <<2>>, <<3>>, <<>> >>,
      soft |-> <<>>,
      starts_on_console |-> NoSvc,
      runs_on_console |-> NoSvc,
      socket_path |-> NoSvc,          \* services with an activation socket
      socket_may_fail |-> NoSvc,      \* ... whose bind/chown/chmod/listen can fail
      fork_may_fail |-> NoSvc,        \* services whose pipe2/fork can fail
      exec_may_fail |-> NoSvc,        \* services whose execvp can fail
      smooth_recovery |-> NoSvc,
      auto_restart |-> NoSvc,         \* per-service auto_restart flag
      set_auto_restart |-> TRUE,      \* service_set::get_auto_restart()
      stop_command |-> NoSvc,         \* SCRIPTED services with a stop command
      restart_delay |-> 0,
      pinnable |-> NoSvc,             \* services that requests may pin
      requests |-> {"start", "wake", "stop", "release", "unpin"},
      clock |-> FALSE,                \* the monotonic clock is seen to advance
      subject |-> 0,                  \* the record a round trip is about (0: none)
      targets |-> {1, 3} ]            \* services that control requests name

\* A depends on B depends on C, all INTERNAL (scenarios E1 and E2).
CfgChain == [BaseCfg EXCEPT !.pinnable = {3}]

\* A PROCESS service on top of an INTERNAL dependency.
CfgTop ==
    [BaseCfg EXCEPT !.name = "top",
                    !.record_type = <<"PROCESS", "INTERNAL", "INTERNAL">>,
                    !.depends_on = << <<2>>, <<>>, <<>> >>,
                    !.exec_may_fail = {1},
                    !.fork_may_fail = {1},
                    !.targets = {1, 2}]

\* Smooth recovery and auto-restart of a PROCESS service with a dependent.
CfgRecover ==
    [BaseCfg EXCEPT !.name = "recover",
                    !.record_type = <<"INTERNAL", "PROCESS", "INTERNAL">>,
                    !.depends_on = << <<2>>, <<>>, <<>> >>,
                    !.smooth_recovery = {2},
                    !.auto_restart = {2},
                    !.clock = TRUE,
                    !.targets = {1, 2}]

\* A soft dependency on a PROCESS service whose exec may fail.
CfgSoft ==
    [BaseCfg EXCEPT !.name = "soft",
                    !.record_type = <<"INTERNAL", "INTERNAL", "PROCESS">>,
                    !.depends_on = << <<2>>, <<>>, <<>> >>,
                    !.soft = << <<1, 3>> >>,
                    !.exec_may_fail = {3},
                    !.set_auto_restart = FALSE,
                    !.targets = {1, 3}]

\* Two console services; the second has a soft dependency.
CfgConsole ==
    [BaseCfg EXCEPT !.name = "console",
                    !.record_type = <<"PROCESS", "INTERNAL", "INTERNAL">>,
                    !.depends_on = << <<>>, <<>>, <<>> >>,
                    !.soft = << <<2, 3>> >>,
                    !.starts_on_console = {1, 2},
                    !.runs_on_console = {1},
                    !.targets = {1, 2, 3}]

\* An activation socket that may fail to open, under a dependent.
CfgSocket ==
    [BaseCfg EXCEPT !.name = "socket",
                    !.record_type = <<"INTERNAL", "PROCESS", "INTERNAL">>,
                    !.depends_on = << <<2>>, <<>>, <<>> >>,
                    !.socket_path = {2},
                    !.socket_may_fail = {2},
                    !.set_auto_restart = FALSE,
                    !.targets = {1}]

\* A SCRIPTED service with a stop command on top of a BGPROCESS service.
CfgScripted ==
    [BaseCfg EXCEPT !.name = "scripted",
                    !.record_type = <<"INTERNAL", "SCRIPTED", "BGPROCESS">>,
                    !.depends_on = << <<>>, <<3>>, <<>> >>,
                    !.stop_command = {2},
                    !.set_auto_restart = FALSE,
                    !.requests = {"start", "stop"},
                    !.targets = {2}]

\* A PROCESS service whose exec may fail, under an INTERNAL dependent that has a
\* PROCESS dependent.
CfgForce ==
    [BaseCfg EXCEPT !.name = "force",
                    !.record_type = <<"PROCESS", "INTERNAL", "PROCESS">>,
                    !.exec_may_fail = {3},
                    !.set_auto_restart = FALSE,
                    !.requests = {"start", "stop"},
                    !.targets = {1, 2, 3}]

Scenarios ==
    {CfgChain, CfgTop, CfgRecover, CfgSoft, CfgConsole, CfgSocket, CfgScripted, CfgForce}

VARIABLES
    cfg,                    \* the loaded service description (never changes)
    service_state,          \* service_record::service_state
    desired_state,          \* service_record::desired_state
    required_by,            \* service_record::required_by
    waiting_for_deps,
    force_stop,
    start_explicit,
    restarting,
    pinned_started,
    pinned_stopped,
    prop_require,
    prop_release,
    prop_failure,
    prop_start,
    prop_stop,
    holding_acq,            \* per soft edge
    waiting_on,             \* per soft edge
    pid,                    \* base_process_service::pid (-1: none)
    exit_status,
    waiting_for_execstat,
    waiting_restart_timer,
    restart_interval_count,
    restart_interval_time,
    last_start_time,
    socket_fd,
    doing_recovery,         \* bgproc_service::doing_recovery
    tracking_child,
    restart_timer,          \* reactor: the restart timer is armed
    prop_queue,             \* service_set queues
    start_queue,
    stop_queue,
    console_queue,
    console_busy,           \* the console is handed to a service (log output off)
    console_holders,        \* services that were handed the console and have not released it
    active_services,
    child_watch,            \* reactor: child watcher registered for a live child
    execstat_watch,         \* reactor: exec-status pipe registered
    now,                    \* reactor: monotonic clock
    phase,                  \* position in process_queues: "idle", "prop", "start", "stop"
    commands,               \* number of control requests issued so far
    advances,               \* number of clock advances so far
    events,                 \* service events emitted by the last step
    last,                   \* what the last step did (for stating claims)
    ctl                     \* dinitctl: one run of the control utility

vars == <<cfg, service_state, desired_state, required_by, waiting_for_deps, force_stop,
          start_explicit, restarting, pinned_started, pinned_stopped, prop_require,
          prop_release, prop_failure, prop_start, prop_stop, holding_acq, waiting_on,
          pid, exit_status, waiting_for_execstat, waiting_restart_timer,
          restart_interval_count, restart_interval_time, last_start_time, socket_fd,
          doing_recovery, tracking_child, restart_timer, prop_queue, start_queue, stop_queue,
          console_queue, console_busy, console_holders, active_services, child_watch,
          execstat_watch, now, phase, commands, advances, events, last, ctl>>


(***************************************************************************)
(* Derived views of the service description.                               *)
(***************************************************************************)
STOPPED == "STOPPED"
STARTING == "STARTING"
STARTED == "STARTED"
STOPPING == "STOPPING"

States == {STOPPED, STARTING, STARTED, STOPPING}

SoftEdges == 1..Len(cfg.soft)

getFrom(e) == cfg.soft[e][1]

getTo(e) == cfg.soft[e][2]

InSeq(x, q) == \E i \in 1..Len(q) : q[i] = x

SeqRange(q) == {q[i] : i \in 1..Len(q)}

\* Sequencing of statements: the value of one statement is computed once and named
\* for the rest.
Bind(val, rest(_)) == CHOOSE res \in {rest(v) : v \in {val}} : TRUE

RECURSIVE SetToSeq(_)
SetToSeq(S) ==
    IF S = {} THEN <<>>
    ELSE Bind(CHOOSE x \in S : \A y \in S : x <= y, LAMBDA m :
         <<m>> \o SetToSeq(S \ {m}))

\* sr_list dependents: the records that list r in depends_on, in load order
dependents(r) == SetToSeq({d \in Svc : InSeq(r, cfg.depends_on[d])})

\* soft_deps of r (edges from r) and soft_dpts of r (edges to r), in list order
soft_deps(r) == SetToSeq({e \in SoftEdges : getFrom(e) = r})

soft_dpts(r) == SetToSeq({e \in SoftEdges : getTo(e) = r})

IsProcessVariant(r) == cfg.record_type[r] \in {"PROCESS", "BGPROCESS", "SCRIPTED"}

(***************************************************************************)
(* The engine state handed from handler to handler.                        *)
(***************************************************************************)
Cur(ff, sf, pr) ==
    [ service_state |-> service_state, desired_state |-> desired_state,
      required_by |-> required_by, waiting_for_deps |-> waiting_for_deps,
      force_stop |-> force_stop, start_explicit |-> start_explicit,
      restarting |-> restarting, pinned_started |-> pinned_started,
      pinned_stopped |-> pinned_stopped, prop_require |-> prop_require,
      prop_release |-> prop_release, prop_failure |-> prop_failure,
      prop_start |-> prop_start, prop_stop |-> prop_stop,
      holding_acq |-> holding_acq, waiting_on |-> waiting_on, pid |-> pid,
      exit_status |-> exit_status, waiting_for_execstat |-> waiting_for_execstat,
      waiting_restart_timer |-> waiting_restart_timer,
      restart_interval_count |-> restart_interval_count,
      restart_interval_time |-> restart_interval_time,
      last_start_time |-> last_start_time, socket_fd |-> socket_fd,
      doing_recovery |-> doing_recovery, tracking_child |-> tracking_child,
      restart_timer |-> restart_timer,
      prop_queue |-> prop_queue, start_queue |-> start_queue,
      stop_queue |-> stop_queue, console_queue |-> console_queue,
      console_busy |-> console_busy, console_holders |-> console_holders,
      active_services |-> active_services, child_watch |-> child_watch,
      execstat_watch |-> execstat_watch, now |-> now,
      events |-> <<>>, calls |-> <<>>,
      fork_fail |-> ff,       \* services whose next pipe2/fork fails in this dispatch
      sock_fail |-> sf,       \* services whose socket set-up fails in this dispatch
      pid_result |-> pr ]     \* what read_pid_file / waitpid find in this dispatch

\* The engine state after a dispatch becomes the next state.
Set(s, act, r) ==
    /\ service_state' = s.service_state
    /\ desired_state' = s.desired_state
    /\ required_by' = s.required_by
    /\ waiting_for_deps' = s.waiting_for_deps
    /\ force_stop' = s.force_stop
    /\ start_explicit' = s.start_explicit
    /\ restarting' = s.restarting
    /\ pinned_started' = s.pinned_started
    /\ pinned_stopped' = s.pinned_stopped
    /\ prop_require' = s.prop_require
    /\ prop_release' = s.prop_release
    /\ prop_failure' = s.prop_failure
    /\ prop_start' = s.prop_start
    /\ prop_stop' = s.prop_stop
    /\ holding_acq' = s.holding_acq
    /\ waiting_on' = s.waiting_on
    /\ pid' = s.pid
    /\ exit_status' = s.exit_status
    /\ waiting_for_execstat' = s.waiting_for_execstat
    /\ waiting_restart_timer' = s.waiting_restart_timer
    /\ restart_interval_count' = s.restart_interval_count
    /\ restart_interval_time' = s.restart_interval_time
    /\ last_start_time' = s.last_start_time
    /\ socket_fd' = s.socket_fd
    /\ doing_recovery' = s.doing_recovery
    /\ tracking_child' = s.tracking_child
    /\ restart_timer' = s.restart_timer
    /\ prop_queue' = s.prop_queue
    /\ start_queue' = s.start_queue
    /\ stop_queue' = s.stop_queue
    /\ console_queue' = s.console_queue
    /\ console_busy' = s.console_busy
    /\ console_holders' = s.console_holders
    /\ active_services' = s.active_services
    /\ child_watch' = s.child_watch
    /\ execstat_watch' = s.execstat_watch
    /\ now' = s.now
    /\ events' = s.events
    /\ last' = [act |-> act, svc |-> r, calls |-> s.calls]
    /\ cfg' = cfg
    /\ ctl' = ctl

\* Ghost: the handlers a dispatch ran, with what they saw when they were entered.
Called(s, fn, r, seen) == [s EXCEPT !.calls = Append(@, <<fn, r, seen>>)]

\* Assignment to service_state, with a ghost entry <<old, new>> when the state changes.
setState(s, r, new) ==
    IF s.service_state[r] = new THEN s
    ELSE Called([s EXCEPT !.service_state[r] = new], "service_state", r,
                <<s.service_state[r], new>>)

(***************************************************************************)
(* service_set members declared in service.h.                              *)
(***************************************************************************)
addToPropQueue(s, r) ==
    IF InSeq(r, s.prop_queue) THEN s ELSE [s EXCEPT !.prop_queue = Append(@, r)]

addToStartQueue(s, r) ==
    IF InSeq(r, s.start_queue) THEN s ELSE [s EXCEPT !.start_queue = Append(@, r)]

addToStopQueue(s, r) ==
    IF InSeq(r, s.stop_queue) THEN s ELSE [s EXCEPT !.stop_queue = Append(@, r)]

get_auto_restart == cfg.set_auto_restart

service_active(s, r) == [s EXCEPT !.active_services = @ + 1]

service_inactive(s, r) == [s EXCEPT !.active_services = @ - 1]

notifyListeners(s, r, ev) == [s EXCEPT !.events = Append(@, <<r, ev>>)]

is_stopped(s, r) == s.service_state[r] = STOPPED

\* A start can be cancelled while it is parked: waiting for dependencies or the
\* console (waiting_for_deps, which service.cc:654 and service.cc:665 set for
\* exactly that and interrupt_start undoes) or for the restart timer.
can_interrupt_start(s, r) ==
    s.waiting_for_deps[r] \/ (IsProcessVariant(r) /\ s.waiting_restart_timer[r])

\* A stop can be cancelled while it still waits for dependents and is not forced
\* (service.cc:447-452).
can_interrupt_stop(s, r) == s.waiting_for_deps[r] /\ ~s.force_stop[r]

do_auto_restart(s, r) == IF r \in cfg.auto_restart THEN get_auto_restart ELSE FALSE


(***************************************************************************)
(* Program constants.                                                      *)
(***************************************************************************)
restart_interval == 10
max_restart_interval_count == 3
ChildPid == 1
ActivationFd == 3

(***************************************************************************)
(* service.cc.  Operators that return a value as well as a state return a  *)
(* record [st |-> state, ret |-> value].                                    *)
(***************************************************************************)
RECURSIVE Call(_, _, _, _)

\* require() that raises the count and sets the bit but forgets the propagation queue
require_unqueued(s, r) ==
    Bind([s EXCEPT !.required_by[r] = @ + 1], LAMBDA s1 :
    IF s.required_by[r] = 0
    THEN [s1 EXCEPT !.prop_require[r] = ~s.prop_release[r],
                    !.prop_release[r] = FALSE]
    ELSE s1)

\* require() that sets prop_require whatever is pending
require_uncancelled(s, r) ==
    Bind([s EXCEPT !.required_by[r] = @ + 1], LAMBDA s1 :
    IF s.required_by[r] = 0
    THEN addToPropQueue([s1 EXCEPT !.prop_require[r] = TRUE], r)
    ELSE s1)

\* service.cc:388
require(s, r) ==
    Bind([s EXCEPT !.required_by[r] = @ + 1], LAMBDA s1 :
    IF s.required_by[r] = 0
    THEN addToPropQueue([s1 EXCEPT !.prop_require[r] = ~s.prop_release[r],
                                   !.prop_release[r] = FALSE], r)
    ELSE s1)

\* service.cc:397
release(s, r) ==
    Bind(Called(s, "release", r, s.required_by[r]), LAMBDA s0 :
    Bind([s0 EXCEPT !.required_by[r] = @ - 1], LAMBDA s1 :
    IF s1.required_by[r] = 0
    THEN Bind([s1 EXCEPT !.desired_state[r] = STOPPED,
                         !.prop_release[r] = ~s1.prop_require[r],
                         !.prop_require[r] = FALSE], LAMBDA s2 :
         Bind(addToPropQueue(s2, r), LAMBDA s3 :
         IF s3.service_state[r] = STOPPED
         THEN service_inactive(s3, r)
         ELSE Call("do_stop", s3, r, FALSE)))
    ELSE s1))

RECURSIVE releaseHardLoop(_, _, _)
releaseHardLoop(s, r, i) ==
    IF i > Len(cfg.depends_on[r]) THEN s
    ELSE releaseHardLoop(Call("release", s, cfg.depends_on[r][i], FALSE), r, i + 1)

RECURSIVE releaseSoftLoop(_, _, _)
releaseSoftLoop(s, r, i) ==
    IF i > Len(soft_deps(r)) THEN s
    ELSE Bind(soft_deps(r)[i], LAMBDA e :
         IF s.holding_acq[e]
         THEN releaseSoftLoop([Call("release", s, getTo(e), FALSE) EXCEPT !.holding_acq[e] = FALSE],
                              r, i + 1)
         ELSE releaseSoftLoop(s, r, i + 1))

\* release_dependencies() that releases the soft dependencies only
release_dependencies_soft(s, r) == releaseSoftLoop(s, r, 1)

\* service.cc:417
release_dependencies(s, r) == releaseSoftLoop(releaseHardLoop(s, r, 1), r, 1)

\* service.cc:1054
forceStop(s, r) ==
    IF s.service_state[r] # STOPPED
    THEN addToStopQueue([s EXCEPT !.force_stop[r] = TRUE], r)
    ELSE s

\* service.cc:1062
dependentStopped(s, r) ==
    IF s.service_state[r] = STOPPING /\ s.waiting_for_deps[r]
    THEN addToStopQueue(s, r)
    ELSE s

\* service.cc:538
dependencyStarted(s, r) ==
    IF s.service_state[r] = STARTING /\ s.waiting_for_deps[r]
    THEN addToStartQueue(s, r)
    ELSE s

\* service.cc:1124
stopCheckDependents(s, r) ==
    \A i \in 1..Len(dependents(r)) : is_stopped(s, dependents(r)[i])

RECURSIVE stopDependentsLoop(_, _, _)
stopDependentsLoop(s, r, i) ==
    IF i > Len(dependents(r)) THEN s
    ELSE Bind(dependents(r)[i], LAMBDA d :
         Bind(IF s.force_stop[r] THEN Call("forceStop", s, d, FALSE) ELSE s, LAMBDA s1 :
         Bind(addToPropQueue([s1 EXCEPT !.prop_stop[d] = TRUE], d), LAMBDA s2 :
         stopDependentsLoop(s2, r, i + 1))))

\* stopDependents() that only looks at the dependents and issues no stop to them
stopDependents_unissued(s, r) ==
    [st |-> s,
     ret |-> \A i \in 1..Len(dependents(r)) : is_stopped(s, dependents(r)[i])]

\* service.cc:1137
stopDependents(s, r) ==
    [st |-> stopDependentsLoop(s, r, 1),
     ret |-> \A i \in 1..Len(dependents(r)) : is_stopped(s, dependents(r)[i])]

\* the startCheckDependencies loops with start_deps set
RECURSIVE startHardLoop(_, _, _)
startHardLoop(s, r, i) ==
    IF i > Len(cfg.depends_on[r]) THEN s
    ELSE Bind(cfg.depends_on[r][i], LAMBDA d :
         IF s.service_state[d] # STARTED
         THEN startHardLoop(addToPropQueue([s EXCEPT !.prop_start[d] = TRUE], d), r, i + 1)
         ELSE startHardLoop(s, r, i + 1))

RECURSIVE startSoftLoop(_, _, _)
startSoftLoop(s, r, i) ==
    IF i > Len(soft_deps(r)) THEN s
    ELSE Bind(soft_deps(r)[i], LAMBDA e :
         Bind(getTo(e), LAMBDA to :
         IF s.service_state[to] # STARTED
         THEN startSoftLoop(addToPropQueue([s EXCEPT !.prop_start[to] = TRUE,
                                                     !.waiting_on[e] = TRUE], to),
                            r, i + 1)
         ELSE startSoftLoop([s EXCEPT !.waiting_on[e] = FALSE], r, i + 1)))

\* the soft loop without start_deps: it returns at the first edge still waited on
RECURSIVE checkSoftLoop(_, _, _)
checkSoftLoop(s, r, i) ==
    IF i > Len(soft_deps(r)) THEN [st |-> s, ret |-> TRUE]
    ELSE Bind(soft_deps(r)[i], LAMBDA e :
         IF s.waiting_on[e]
         THEN IF s.service_state[getTo(e)] # STARTING
              THEN checkSoftLoop([s EXCEPT !.waiting_on[e] = FALSE], r, i + 1)
              ELSE [st |-> s, ret |-> FALSE]
         ELSE checkSoftLoop(s, r, i + 1))

\* startCheckDependencies() that looks at the soft dependencies only
startCheckDependencies_hardless(s, r, start_deps) ==
    IF start_deps
    THEN [st |-> startSoftLoop(startHardLoop(s, r, 1), r, 1),
          ret |-> \A i \in 1..Len(soft_deps(r)) :
                        s.service_state[getTo(soft_deps(r)[i])] = STARTED]
    ELSE checkSoftLoop(s, r, 1)

\* service.cc:545
startCheckDependencies(s, r, start_deps) ==
    IF start_deps
    THEN [st |-> startSoftLoop(startHardLoop(s, r, 1), r, 1),
          ret |-> /\ \A i \in 1..Len(cfg.depends_on[r]) :
                        s.service_state[cfg.depends_on[r][i]] = STARTED
                  /\ \A i \in 1..Len(soft_deps(r)) :
                        s.service_state[getTo(soft_deps(r)[i])] = STARTED]
    ELSE IF \E i \in 1..Len(cfg.depends_on[r]) :
                s.service_state[cfg.depends_on[r][i]] # STARTED
         THEN [st |-> s, ret |-> FALSE]
         ELSE checkSoftLoop(s, r, 1)

\* service_set::unqueue_console (service.h)
unqueue_console(s, r) ==
    [s EXCEPT !.console_queue = SelectSeq(@, LAMBDA x : x # r)]

\* service_set::pull_console_queue (service.h)
pull_console_queue(s) ==
    IF s.console_queue = <<>>
    THEN [s EXCEPT !.console_busy = FALSE]
    ELSE Bind(Head(s.console_queue), LAMBDA h :
         Call("acquiredConsole", [s EXCEPT !.console_queue = Tail(@),
                                   !.console_busy = TRUE,
                                   !.console_holders = @ \cup {h}], h, FALSE))

\* service_set::append_console_queue (service.h)
append_console_queue(s, r) ==
    Bind([s EXCEPT !.console_queue = Append(@, r)], LAMBDA s1 :
    IF s.console_busy THEN s1 ELSE Call("pull_console_queue", s1, 0, FALSE))

\* service.cc:1236
queue_for_console(s, r) == append_console_queue(s, r)

\* service.cc:1241
release_console(s, r) ==
    Call("pull_console_queue", [Called(s, "release_console", r, r \in s.console_holders)
                           EXCEPT !.console_holders = @ \ {r}], 0, FALSE)

\* service.cc:1246 and service.cc:1337
interrupt_start(s, r) ==
    IF IsProcessVariant(r)
    THEN unqueue_console(IF s.waiting_restart_timer[r]
                         THEN [s EXCEPT !.restart_timer[r] = FALSE,
                                        !.waiting_restart_timer[r] = FALSE]
                         ELSE s, r)
    ELSE unqueue_console(s, r)


do_stop_tail(s, r) ==
    Bind([setState(s, r, STOPPING) EXCEPT !.waiting_for_deps[r] = TRUE], LAMBDA s1 :
    Bind(Call("stopDependents", s1, r, FALSE), LAMBDA sd :
    IF sd.ret THEN addToStopQueue(sd.st, r) ELSE sd.st))

\* service.cc:1081
do_stop(s, r) ==
    IF s.pinned_started[r] THEN s
    ELSE Bind(s.start_explicit[r] /\ ~do_auto_restart(s, r), LAMBDA rel :
         Bind(IF rel THEN Call("release", [s EXCEPT !.start_explicit[r] = FALSE], r, FALSE) ELSE s, LAMBDA s1 :
         IF rel /\ s1.required_by[r] = 0 THEN s1
         ELSE IF s1.service_state[r] # STARTED
         THEN IF s1.service_state[r] = STARTING
              THEN IF ~can_interrupt_start(s1, r)
                   THEN Call("stopDependents", s1, r, FALSE).st
                   ELSE do_stop_tail(
                            Call("interrupt_start", 
                                notifyListeners(s1, r, "STARTCANCELLED"), r, FALSE), r)
              ELSE s1
         ELSE do_stop_tail(s1, r)))

\* service.cc:1069
stop(s, r, bring_down) ==
    Bind(IF s.start_explicit[r]
         THEN Call("release", [s EXCEPT !.start_explicit[r] = FALSE], r, FALSE)
         ELSE s, LAMBDA s1 :
    IF bring_down THEN Call("do_stop", s1, r, FALSE) ELSE s1)

start_tail(s, r) ==
    Bind([setState(s, r, STARTING) EXCEPT !.waiting_for_deps[r] = TRUE], LAMBDA s1 :
    Bind(Call("startCheckDependencies", s1, r, TRUE), LAMBDA chk :
    IF chk.ret THEN addToStartQueue(chk.st, r) ELSE chk.st))

\* start() that takes an activation on every explicit start
start_reactivated(s, r, activate) ==
    Bind(IF activate
         THEN [Call("require", s, r, FALSE) EXCEPT !.start_explicit[r] = TRUE]
         ELSE s, LAMBDA s1 :
    IF s1.desired_state[r] = STARTED /\ s1.service_state[r] # STOPPED THEN s1
    ELSE Bind(\/ s1.service_state[r] # STOPPED
              \/ s1.desired_state[r] # STOPPED, LAMBDA was_active :
         Bind([s1 EXCEPT !.desired_state[r] = STARTED], LAMBDA s2 :
         IF s2.service_state[r] # STOPPED
         THEN IF s2.service_state[r] # STOPPING \/ ~can_interrupt_stop(s2, r)
              THEN s2
              ELSE start_tail(notifyListeners(s2, r, "STOPCANCELLED"), r)
         ELSE start_tail(IF ~was_active THEN service_active(s2, r) ELSE s2, r))))

\* start() that takes the explicit activation without remembering it
start_unremembered(s, r, activate) ==
    Bind(IF activate /\ ~s.start_explicit[r]
         THEN Call("require", s, r, FALSE)
         ELSE s, LAMBDA s1 :
    IF s1.desired_state[r] = STARTED /\ s1.service_state[r] # STOPPED THEN s1
    ELSE Bind(\/ s1.service_state[r] # STOPPED
              \/ s1.desired_state[r] # STOPPED, LAMBDA was_active :
         Bind([s1 EXCEPT !.desired_state[r] = STARTED], LAMBDA s2 :
         IF s2.service_state[r] # STOPPED
         THEN IF s2.service_state[r] # STOPPING \/ ~can_interrupt_stop(s2, r)
              THEN s2
              ELSE start_tail(notifyListeners(s2, r, "STOPCANCELLED"), r)
         ELSE start_tail(IF ~was_active THEN service_active(s2, r) ELSE s2, r))))

\* start() that begins a start whatever the state of the record
start_restarting(s, r, activate) ==
    Bind(IF activate /\ ~s.start_explicit[r]
         THEN [Call("require", s, r, FALSE) EXCEPT !.start_explicit[r] = TRUE]
         ELSE s, LAMBDA s1 :
    Bind(\/ s1.service_state[r] # STOPPED
         \/ s1.desired_state[r] # STOPPED, LAMBDA was_active :
    Bind([s1 EXCEPT !.desired_state[r] = STARTED], LAMBDA s2 :
    start_tail(IF ~was_active THEN service_active(s2, r) ELSE s2, r))))

\* service.cc:432
start(s, r, activate) ==
    Bind(IF activate /\ ~s.start_explicit[r]
         THEN [Call("require", s, r, FALSE) EXCEPT !.start_explicit[r] = TRUE]
         ELSE s, LAMBDA s1 :
    IF s1.desired_state[r] = STARTED /\ s1.service_state[r] # STOPPED THEN s1
    ELSE Bind(\/ s1.service_state[r] # STOPPED
              \/ s1.desired_state[r] # STOPPED, LAMBDA was_active :
         Bind([s1 EXCEPT !.desired_state[r] = STARTED], LAMBDA s2 :
         IF s2.service_state[r] # STOPPED
         THEN IF s2.service_state[r] # STOPPING \/ ~can_interrupt_stop(s2, r)
              THEN s2
              ELSE start_tail(notifyListeners(s2, r, "STOPCANCELLED"), r)
         ELSE start_tail(IF ~was_active THEN service_active(s2, r) ELSE s2, r))))

RECURSIVE startedNotifyHard(_, _, _)
startedNotifyHard(s, r, i) ==
    IF i > Len(dependents(r)) THEN s
    ELSE startedNotifyHard(Call("dependencyStarted", s, dependents(r)[i], FALSE), r, i + 1)

RECURSIVE startedNotifySoft(_, _, _)
startedNotifySoft(s, r, i) ==
    IF i > Len(soft_dpts(r)) THEN s
    ELSE startedNotifySoft(Call("dependencyStarted", s, getFrom(soft_dpts(r)[i]), FALSE), r, i + 1)

\* started() that does not look at force_stop and desired_state
started_unstopped(s, r) ==
    Bind(Called(s, "started", r, s.service_state[r]), LAMBDA s0 :
    Bind(IF r \in cfg.starts_on_console /\ r \notin cfg.runs_on_console
         THEN Call("release_console", s0, r, FALSE)
         ELSE s0, LAMBDA s1 :
    Bind(notifyListeners(setState(s1, r, STARTED), r, "STARTED"), LAMBDA s2 :
    startedNotifySoft(startedNotifyHard(s2, r, 1), r, 1))))

\* service.cc:748
started(s, r) ==
    Bind(Called(s, "started", r, s.service_state[r]), LAMBDA s0 :
    Bind(IF r \in cfg.starts_on_console /\ r \notin cfg.runs_on_console
         THEN Call("release_console", s0, r, FALSE)
         ELSE s0, LAMBDA s1 :
    Bind(notifyListeners(setState(s1, r, STARTED), r, "STARTED"), LAMBDA s2 :
    IF s2.force_stop[r] \/ s2.desired_state[r] = STOPPED
    THEN Call("do_stop", s2, r, FALSE)
    ELSE startedNotifySoft(startedNotifyHard(s2, r, 1), r, 1))))

RECURSIVE failedNotifyHard(_, _, _)
failedNotifyHard(s, r, i) ==
    IF i > Len(dependents(r)) THEN s
    ELSE Bind(dependents(r)[i], LAMBDA d :
         IF s.service_state[d] = STARTING
         THEN failedNotifyHard(addToPropQueue([s EXCEPT !.prop_failure[d] = TRUE], d),
                               r, i + 1)
         ELSE failedNotifyHard(s, r, i + 1))

RECURSIVE failedNotifySoft(_, _, _)
failedNotifySoft(s, r, i) ==
    IF i > Len(soft_dpts(r)) THEN s
    ELSE Bind(soft_dpts(r)[i], LAMBDA e :
         IF s.waiting_on[e]
         THEN Bind([s EXCEPT !.holding_acq[e] = FALSE, !.waiting_on[e] = FALSE], LAMBDA s1 :
              Bind(Call("dependencyStarted", s1, getFrom(e), FALSE), LAMBDA s2 :
              failedNotifySoft(Call("release", s2, r, FALSE), r, i + 1)))
         ELSE failedNotifySoft(s, r, i + 1))

\* failed_to_start() that does not cancel the start of the hard dependents
failed_to_start_uncascaded(s, r, depfailed) ==
    Bind(Called(s, "failed_to_start", r, depfailed), LAMBDA s0 :
    Bind(IF ~depfailed /\ r \in cfg.starts_on_console
         THEN Call("release_console", s0, r, FALSE)
         ELSE s0, LAMBDA s1 :
    Bind(setState(s1, r, STOPPED), LAMBDA s2 :
    Bind(IF s2.start_explicit[r]
         THEN Call("release", [s2 EXCEPT !.start_explicit[r] = FALSE], r, FALSE)
         ELSE s2, LAMBDA s3 :
    Bind(notifyListeners(s3, r, "FAILEDSTART"), LAMBDA s4 :
    failedNotifySoft(s4, r, 1))))))

\* service.cc:781
failed_to_start(s, r, depfailed) ==
    Bind(Called(s, "failed_to_start", r, depfailed), LAMBDA s0 :
    Bind(IF ~depfailed /\ r \in cfg.starts_on_console
         THEN Call("release_console", s0, r, FALSE)
         ELSE s0, LAMBDA s1 :
    Bind(setState(s1, r, STOPPED), LAMBDA s2 :
    Bind(IF s2.start_explicit[r]
         THEN Call("release", [s2 EXCEPT !.start_explicit[r] = FALSE], r, FALSE)
         ELSE s2, LAMBDA s3 :
    Bind(notifyListeners(s3, r, "FAILEDSTART"), LAMBDA s4 :
    failedNotifySoft(failedNotifyHard(s4, r, 1), r, 1))))))

RECURSIVE stoppedSoftLoop(_, _, _)
stoppedSoftLoop(s, r, i) ==
    IF i > Len(soft_dpts(r)) THEN s
    ELSE Bind(soft_dpts(r)[i], LAMBDA e :
         IF s.holding_acq[e]
         THEN stoppedSoftLoop(Call("release", [s EXCEPT !.holding_acq[e] = FALSE], r, FALSE), r, i + 1)
         ELSE stoppedSoftLoop(s, r, i + 1))

RECURSIVE stoppedHardLoop(_, _, _)
stoppedHardLoop(s, r, i) ==
    IF i > Len(cfg.depends_on[r]) THEN s
    ELSE stoppedHardLoop(Call("dependentStopped", s, cfg.depends_on[r][i], FALSE), r, i + 1)

\* stopped() that closes the activation socket before it decides on the restart
stopped_closing(s, r) ==
    Bind(Called(s, "stopped", r, s.service_state[r]), LAMBDA s0 :
    Bind(IF r \in cfg.runs_on_console THEN Call("release_console", s0, r, FALSE) ELSE s0, LAMBDA s1 :
    Bind([s1 EXCEPT !.force_stop[r] = FALSE], LAMBDA s2 :
    Bind(stoppedSoftLoop(s2, r, 1), LAMBDA s3 :
    Bind(s3.desired_state[r] = STARTED /\ get_auto_restart, LAMBDA will_restart :
    Bind(stoppedHardLoop(s3, r, 1), LAMBDA s4 :
    Bind([setState(s4, r, STOPPED) EXCEPT !.socket_fd[r] = -1], LAMBDA s5 :
    Bind(IF will_restart
         THEN Call("start", [s5 EXCEPT !.restarting[r] = TRUE], r, FALSE)
         ELSE Bind([s5 EXCEPT !.socket_fd[r] = -1], LAMBDA a :
              IF a.start_explicit[r]
              THEN Call("release", [a EXCEPT !.start_explicit[r] = FALSE], r, FALSE)
              ELSE IF a.required_by[r] = 0
                   THEN service_inactive(a, r)
                   ELSE a), LAMBDA s6 :
    notifyListeners(s6, r, "STOPPED")))))))))

\* service.cc:61
stopped(s, r) ==
    Bind(Called(s, "stopped", r, s.service_state[r]), LAMBDA s0 :
    Bind(IF r \in cfg.runs_on_console THEN Call("release_console", s0, r, FALSE) ELSE s0, LAMBDA s1 :
    Bind([s1 EXCEPT !.force_stop[r] = FALSE], LAMBDA s2 :
    Bind(stoppedSoftLoop(s2, r, 1), LAMBDA s3 :
    Bind(s3.desired_state[r] = STARTED /\ get_auto_restart, LAMBDA will_restart :
    Bind(stoppedHardLoop(s3, r, 1), LAMBDA s4 :
    Bind(setState(s4, r, STOPPED), LAMBDA s5 :
    Bind(IF will_restart
         THEN Call("start", [s5 EXCEPT !.restarting[r] = TRUE], r, FALSE)
         ELSE Bind([s5 EXCEPT !.socket_fd[r] = -1], LAMBDA a :
              IF a.start_explicit[r]
              THEN Call("release", [a EXCEPT !.start_explicit[r] = FALSE], r, FALSE)
              ELSE IF a.required_by[r] = 0
                   THEN service_inactive(a, r)
                   ELSE a), LAMBDA s6 :
    notifyListeners(s6, r, "STOPPED")))))))))

\* emergency_stop() without the forceStop()
emergency_stop_unforced(s, r) ==
    Bind(Called(s, "emergency_stop", r, s.service_state[r]), LAMBDA s0 :
    Bind(IF ~do_auto_restart(s0, r) /\ s0.start_explicit[r]
         THEN Call("release", [s0 EXCEPT !.start_explicit[r] = FALSE], r, FALSE)
         ELSE s0, LAMBDA s1 :
    Bind(Call("stopDependents", s1, r, FALSE).st, LAMBDA s3 :
    Call("stopped", s3, r, FALSE))))

\* service.cc:146 (and the same statements at service.cc:288)
emergency_stop(s, r) ==
    Bind(Called(s, "emergency_stop", r, s.service_state[r]), LAMBDA s0 :
    Bind(IF ~do_auto_restart(s0, r) /\ s0.start_explicit[r]
         THEN Call("release", [s0 EXCEPT !.start_explicit[r] = FALSE], r, FALSE)
         ELSE s0, LAMBDA s1 :
    Bind(Call("forceStop", s1, r, FALSE), LAMBDA s2 :
    Bind(Call("stopDependents", s2, r, FALSE).st, LAMBDA s3 :
    Call("stopped", s3, r, FALSE)))))

\* service.cc:590
open_socket(s, r) ==
    IF r \notin cfg.socket_path \/ s.socket_fd[r] # -1 THEN [st |-> s, ret |-> TRUE]
    ELSE IF r \in s.sock_fail THEN [st |-> Called(s, "open_socket", r, FALSE), ret |-> FALSE]
    ELSE [st |-> [s EXCEPT !.socket_fd[r] = ActivationFd], ret |-> TRUE]

\* service.cc:834
start_ps_process_cmd(s, r) ==
    Bind([s EXCEPT !.last_start_time[r] = s.now], LAMBDA s1 :
    IF r \in s.fork_fail THEN [st |-> s1, ret |-> FALSE]
    ELSE [st |-> [Called(s1, "fork", r, s1.service_state[r])
                     EXCEPT !.pid[r] = ChildPid,
                            !.waiting_for_execstat[r] = TRUE,
                            !.child_watch[r] = TRUE,
                            !.execstat_watch[r] = TRUE],
          ret |-> TRUE])

\* service.cc:815 and service.cc:822
start_ps_process(s, r) ==
    IF ~IsProcessVariant(r) THEN [st |-> Call("started", s, r, FALSE), ret |-> TRUE]
    ELSE IF s.restarting[r] THEN Call("restart_ps_process", s, r, FALSE)
    ELSE start_ps_process_cmd([s EXCEPT !.restart_interval_time[r] = s.now,
                                        !.restart_interval_count[r] = 0], r)

\* service.cc:1278
do_restart(s, r) ==
    Bind([s EXCEPT !.restarting[r] = FALSE,
                   !.waiting_restart_timer[r] = FALSE,
                   !.restart_interval_count[r] = @ + 1], LAMBDA s1 :
    Bind(start_ps_process_cmd(s1, r), LAMBDA sp :
    IF ~sp.ret
    THEN Call("process_queues", 
             IF sp.st.service_state[r] = STARTING
             THEN Call("failed_to_start", sp.st, r, FALSE)
             ELSE Call("forceStop", [sp.st EXCEPT !.desired_state[r] = STOPPED], r, FALSE), 0, FALSE)
    ELSE sp.st))

\* service.cc:1301
restart_ps_process(s0, r) ==
    Bind(s0.now - s0.restart_interval_time[r] < restart_interval, LAMBDA in_window :
    Bind(/\ max_restart_interval_count # 0
         /\ in_window
         /\ s0.restart_interval_count[r] >= max_restart_interval_count, LAMBDA refuse :
    Bind(Called(s0, "restart_ps_process", r, refuse), LAMBDA s :
    Bind(IF max_restart_interval_count # 0 /\ ~in_window
         THEN [s EXCEPT !.restart_interval_time[r] = s.now,
                        !.restart_interval_count[r] = 0]
         ELSE s, LAMBDA s1 :
    Bind(s.now - s.last_start_time[r], LAMBDA tdiff :
    IF refuse THEN [st |-> s, ret |-> FALSE]
    ELSE IF cfg.restart_delay < tdiff
         THEN [st |-> Call("do_restart", s1, r, FALSE), ret |-> TRUE]
         ELSE [st |-> [s1 EXCEPT !.restart_timer[r] = TRUE,
                                 !.waiting_restart_timer[r] = TRUE],
               ret |-> TRUE])))))

\* allDepsStarted() that opens the socket but never launches the service
allDepsStarted_unlaunched(s, r, has_console) ==
    IF r \in cfg.starts_on_console /\ ~has_console
    THEN Call("queue_for_console", [s EXCEPT !.waiting_for_deps[r] = TRUE], r, FALSE)
    ELSE Bind([s EXCEPT !.waiting_for_deps[r] = FALSE], LAMBDA s1 :
         IF can_interrupt_start(s1, r)
         THEN [s1 EXCEPT !.waiting_for_deps[r] = TRUE]
         ELSE Bind(open_socket(s1, r), LAMBDA os :
              IF ~os.ret THEN Call("failed_to_start", os.st, r, FALSE) ELSE os.st))

\* allDepsStarted() that launches the service without waiting for the console
allDepsStarted_ungated(s, r, has_console) ==
    Bind([s EXCEPT !.waiting_for_deps[r] = FALSE], LAMBDA s1 :
    IF can_interrupt_start(s1, r)
    THEN [s1 EXCEPT !.waiting_for_deps[r] = TRUE]
    ELSE Bind(open_socket(s1, r), LAMBDA os :
         Bind(IF ~os.ret THEN Call("failed_to_start", os.st, r, FALSE) ELSE os.st, LAMBDA s2 :
         Bind(Call("start_ps_process", s2, r, FALSE), LAMBDA sp :
         IF ~sp.ret THEN Call("failed_to_start", sp.st, r, FALSE) ELSE sp.st))))

\* service.cc:652
allDepsStarted(s, r, has_console) ==
    IF r \in cfg.starts_on_console /\ ~has_console
    THEN Call("queue_for_console", [s EXCEPT !.waiting_for_deps[r] = TRUE], r, FALSE)
    ELSE Bind([s EXCEPT !.waiting_for_deps[r] = FALSE], LAMBDA s1 :
         IF can_interrupt_start(s1, r)
         THEN [s1 EXCEPT !.waiting_for_deps[r] = TRUE]
         ELSE Bind(open_socket(s1, r), LAMBDA os :
              Bind(IF ~os.ret THEN Call("failed_to_start", os.st, r, FALSE) ELSE os.st, LAMBDA s2 :
              Bind(Call("start_ps_process", s2, r, FALSE), LAMBDA sp :
              IF ~sp.ret THEN Call("failed_to_start", sp.st, r, FALSE) ELSE sp.st))))

\* service.cc:679
acquiredConsole(s, r) ==
    IF s.service_state[r] # STARTING THEN Call("release_console", s, r, FALSE)
    ELSE Bind(Call("startCheckDependencies", s, r, FALSE), LAMBDA chk :
         IF chk.ret
         THEN Call("allDepsStarted", chk.st, r, TRUE)
         ELSE Call("release_console", chk.st, r, FALSE))


RECURSIVE requireHardLoop(_, _, _)
requireHardLoop(s, r, i) ==
    IF i > Len(cfg.depends_on[r]) THEN s
    ELSE requireHardLoop(Call("require", s, cfg.depends_on[r][i], FALSE), r, i + 1)

RECURSIVE requireSoftLoop(_, _, _)
requireSoftLoop(s, r, i) ==
    IF i > Len(soft_deps(r)) THEN s
    ELSE Bind(soft_deps(r)[i], LAMBDA e :
         requireSoftLoop([Call("require", s, getTo(e), FALSE) EXCEPT !.holding_acq[e] = TRUE], r, i + 1))

\* do_propagation that leaves the record's pending work on the queue
do_propagation_requeued(s, r) == addToPropQueue(s, r)

\* service.cc:467
do_propagation(s, r) ==
    Bind(IF s.prop_require[r]
         THEN [requireSoftLoop(requireHardLoop(s, r, 1), r, 1)
                   EXCEPT !.prop_require[r] = FALSE]
         ELSE s, LAMBDA s1 :
    Bind(IF s1.prop_release[r]
         THEN [Call("release_dependencies", s1, r, FALSE) EXCEPT !.prop_release[r] = FALSE]
         ELSE s1, LAMBDA s2 :
    Bind(IF s2.prop_failure[r]
         THEN Call("failed_to_start", [s2 EXCEPT !.prop_failure[r] = FALSE], r, TRUE)
         ELSE s2, LAMBDA s3 :
    Bind(IF s3.prop_start[r]
         THEN Call("start", [s3 EXCEPT !.prop_start[r] = FALSE], r, FALSE)
         ELSE s3, LAMBDA s4 :
    IF s4.prop_stop[r]
    THEN Call("do_stop", [s4 EXCEPT !.prop_stop[r] = FALSE], r, FALSE)
    ELSE s4))))

\* service.cc:1162, service.cc:1168 and service.cc:1206
all_deps_stopped(s, r) ==
    Bind([Called(s, "all_deps_stopped", r, stopCheckDependents(s, r))
             EXCEPT !.waiting_for_deps[r] = FALSE], LAMBDA s1 :
    IF cfg.record_type[r] = "INTERNAL" THEN Call("stopped", s1, r, FALSE)
    ELSE IF cfg.record_type[r] = "SCRIPTED"
    THEN IF r \notin cfg.stop_command THEN Call("stopped", s1, r, FALSE)
         ELSE Bind(start_ps_process_cmd(s1, r), LAMBDA sp :
              IF ~sp.ret THEN Call("stopped", sp.st, r, FALSE) ELSE sp.st)
    ELSE IF s1.pid[r] # -1
         THEN IF cfg.record_type[r] = "BGPROCESS"
              THEN \* waitpid(pid, &status, WNOHANG)
                   IF ~s1.child_watch[r]
                   THEN Call("stopped", s1, r, FALSE)                      \* ECHILD
                   ELSE IF s1.pid_result \in {"TERM0", "TERM1"}
                   THEN Call("stopped", [s1 EXCEPT !.child_watch[r] = FALSE], r, FALSE)  \* r == pid
                   ELSE s1
              ELSE s1
         ELSE Call("stopped", s1, r, FALSE))

\* execute_transition() that completes a stop without looking at the dependents
execute_transition_unchecked(s, r) ==
    IF s.service_state[r] = STARTING
    THEN Bind(Call("startCheckDependencies", s, r, FALSE), LAMBDA chk :
         IF chk.ret THEN Call("allDepsStarted", chk.st, r, FALSE) ELSE chk.st)
    ELSE IF s.service_state[r] = STOPPING
    THEN Call("all_deps_stopped", s, r, FALSE)
    ELSE s

\* service.cc:505
execute_transition(s, r) ==
    IF s.service_state[r] = STARTING
    THEN Bind(Call("startCheckDependencies", s, r, FALSE), LAMBDA chk :
         IF chk.ret THEN Call("allDepsStarted", chk.st, r, FALSE) ELSE chk.st)
    ELSE IF s.service_state[r] = STOPPING
    THEN IF stopCheckDependents(s, r) THEN Call("all_deps_stopped", s, r, FALSE) ELSE s
    ELSE s

\* service.cc:519
do_start(s, r) ==
    IF s.pinned_stopped[r] THEN s
    ELSE IF s.service_state[r] # STARTING THEN s
    ELSE Bind([setState(s, r, STARTING) EXCEPT !.waiting_for_deps[r] = TRUE], LAMBDA s1 :
         Bind(Call("startCheckDependencies", s1, r, FALSE), LAMBDA chk :
         IF chk.ret THEN Call("allDepsStarted", chk.st, r, FALSE) ELSE chk.st))

\* service_set::process_queues (service.h), called from inside a handler
RECURSIVE propLoop(_)
propLoop(s) ==
    IF s.prop_queue = <<>> THEN s
    ELSE propLoop(Call("do_propagation", [s EXCEPT !.prop_queue = Tail(@)], Head(s.prop_queue), FALSE))

RECURSIVE startLoop(_)
startLoop(s) ==
    IF s.start_queue = <<>> THEN s
    ELSE startLoop(Call("execute_transition", [s EXCEPT !.start_queue = Tail(@)],
                                      Head(s.start_queue), FALSE))

RECURSIVE stopLoop(_)
stopLoop(s) ==
    IF s.stop_queue = <<>> THEN s
    ELSE stopLoop(Call("execute_transition", [s EXCEPT !.stop_queue = Tail(@)],
                                     Head(s.stop_queue), FALSE))

process_queues(s) ==
    IF s.stop_queue = <<>> /\ s.prop_queue = <<>> /\ s.start_queue = <<>> THEN s
    ELSE Call("process_queues", stopLoop(startLoop(propLoop(s))), 0, FALSE)

\* unpin() that clears the pins without acting on the desired state
unpin_unacted(s, r) ==
    [s EXCEPT !.pinned_started[r] = FALSE, !.pinned_stopped[r] = FALSE]

\* service.cc:1218
unpin(s, r) ==
    Bind(IF s.pinned_started[r]
         THEN Bind([s EXCEPT !.pinned_started[r] = FALSE], LAMBDA a :
              IF a.desired_state[r] = STOPPED
              THEN IF a.pinned_stopped[r]
                   THEN Call("process_queues", Call("do_stop", a, r, FALSE), 0, FALSE)
                   ELSE Call("do_stop", a, r, FALSE)
              ELSE a)
         ELSE s, LAMBDA s1 :
    IF s1.pinned_stopped[r]
    THEN Bind([s1 EXCEPT !.pinned_stopped[r] = FALSE], LAMBDA b :
         IF b.desired_state[r] = STARTED THEN Call("do_start", b, r, FALSE) ELSE b)
    ELSE s1)

\* bgproc_service::read_pid_file, service.cc:694
read_pid_file(s, r) ==
    IF s.pid_result = "OK_TRACK"
    THEN [st |-> [s EXCEPT !.pid[r] = ChildPid, !.tracking_child[r] = TRUE,
                           !.child_watch[r] = TRUE],
          ret |-> "OK", status |-> 0]
    ELSE IF s.pid_result = "OK_NOTRACK"
    THEN [st |-> [s EXCEPT !.pid[r] = ChildPid, !.tracking_child[r] = FALSE],
          ret |-> "OK", status |-> 0]
    ELSE IF s.pid_result \in {"TERM0", "TERM1"}
    THEN [st |-> [s EXCEPT !.pid[r] = -1],
          ret |-> "TERMINATED", status |-> IF s.pid_result = "TERM0" THEN 0 ELSE 1]
    ELSE [st |-> [s EXCEPT !.pid[r] = -1], ret |-> "FAILED", status |-> 0]

\* handle_exit_status() without the smooth-recovery branch
handle_exit_status_unrecovered(s, r, status) ==
    IF s.service_state[r] = STARTING
    THEN IF status = 0 THEN Call("started", s, r, FALSE) ELSE Call("failed_to_start", s, r, FALSE)
    ELSE IF s.service_state[r] = STOPPING THEN Call("stopped", s, r, FALSE)
    ELSE Call("emergency_stop", s, r, FALSE)

\* process_service::handle_exit_status, service.cc:157 (its closing process_queues
\* is the tick that follows the dispatch)
handle_exit_status_process(s, r, status) ==
    IF s.service_state[r] = STARTING
    THEN IF status = 0 THEN Call("started", s, r, FALSE) ELSE Call("failed_to_start", s, r, FALSE)
    ELSE IF s.service_state[r] = STOPPING THEN Call("stopped", s, r, FALSE)
    ELSE IF /\ r \in cfg.smooth_recovery
            /\ s.service_state[r] = STARTED
            /\ s.desired_state[r] = STARTED
    THEN Bind(Call("restart_ps_process", s, r, FALSE), LAMBDA rp :
         IF ~rp.ret THEN Call("emergency_stop", rp.st, r, FALSE) ELSE rp.st)
    ELSE Call("emergency_stop", s, r, FALSE)

\* bgproc_service::handle_exit_status, service.cc:200
RECURSIVE handle_exit_status_bgproc(_, _, _)
handle_exit_status_bgproc(s, r, status) ==
    IF s.doing_recovery[r]
    THEN Bind([s EXCEPT !.doing_recovery[r] = FALSE], LAMBDA s1 :
         IF status # 0 THEN Call("emergency_stop", s1, r, FALSE)
         ELSE Bind(read_pid_file(s1, r), LAMBDA rd :
              IF rd.ret = "FAILED" THEN Call("emergency_stop", rd.st, r, FALSE)
              ELSE IF rd.ret = "TERMINATED"
              THEN handle_exit_status_bgproc(rd.st, r, rd.status)
              ELSE rd.st))
    ELSE IF s.service_state[r] = STARTING
    THEN IF status = 0
         THEN Bind(read_pid_file(s, r), LAMBDA rd :
              IF rd.ret = "FAILED" THEN Call("failed_to_start", rd.st, r, FALSE)
              ELSE IF rd.ret = "TERMINATED"
              THEN handle_exit_status_bgproc(Call("started", rd.st, r, FALSE), r, rd.status)
              ELSE Call("started", rd.st, r, FALSE))
         ELSE Call("failed_to_start", s, r, FALSE)
    ELSE IF s.service_state[r] = STOPPING THEN Call("stopped", s, r, FALSE)
    ELSE IF /\ r \in cfg.smooth_recovery
            /\ s.service_state[r] = STARTED
            /\ s.desired_state[r] = STARTED
    THEN Bind(Call("restart_ps_process", [s EXCEPT !.doing_recovery[r] = TRUE], r, FALSE), LAMBDA rp :
         IF ~rp.ret THEN Call("emergency_stop", rp.st, r, FALSE) ELSE rp.st)
    ELSE Call("emergency_stop", s, r, FALSE)

\* scripted_service::handle_exit_status, service.cc:299
handle_exit_status_scripted(s, r, status) ==
    IF s.service_state[r] = STOPPING THEN Call("stopped", s, r, FALSE)
    ELSE IF status = 0 THEN Call("started", s, r, FALSE) ELSE Call("failed_to_start", s, r, FALSE)

handle_exit_status(s, r, status) ==
    Bind(Called(s, "handle_exit_status", r, status), LAMBDA s0 :
    IF cfg.record_type[r] = "PROCESS" THEN handle_exit_status_process(s0, r, status)
    ELSE IF cfg.record_type[r] = "BGPROCESS" THEN handle_exit_status_bgproc(s0, r, status)
    ELSE handle_exit_status_scripted(s0, r, status))

\* service_child_watcher::status_change, service.cc:113
status_change(s, r, status) ==
    Bind([s EXCEPT !.pid[r] = -1, !.exit_status[r] = status,
                   !.child_watch[r] = FALSE], LAMBDA s1 :
    IF s1.waiting_for_execstat[r] THEN s1
    ELSE Call("handle_exit_status", s1, r, status))

\* exec_status_pipe_watcher::fd_event, service.cc:340; failed: read() returned an errno
fd_event(s, r, failed) ==
    Bind([Called(s, "fd_event", r, <<failed, s.service_state[r]>>)
             EXCEPT !.waiting_for_execstat[r] = FALSE, !.execstat_watch[r] = FALSE], LAMBDA s1 :
    IF failed
    THEN Bind([s1 EXCEPT !.child_watch[r] = FALSE, !.pid[r] = -1], LAMBDA s2 :
         IF s2.service_state[r] = STARTING THEN Call("failed_to_start", s2, r, FALSE)
         ELSE IF s2.service_state[r] = STOPPING THEN Call("stopped", s2, r, FALSE)
         ELSE s2)
    ELSE Bind(IF cfg.record_type[r] = "PROCESS" /\ s1.service_state[r] = STARTING
              THEN Call("started", s1, r, FALSE)
              ELSE s1, LAMBDA s2 :
         IF s2.pid[r] = -1
         THEN Call("handle_exit_status", s2, r, s2.exit_status[r])
         ELSE s2))

\* process_restart_timer::timer_expiry, service.cc:1347
timer_expiry(s, r) == Call("do_restart", [s EXCEPT !.restart_timer[r] = FALSE], r, FALSE)


(***************************************************************************)
(* Control requests (the control endpoint is external; pinStart / pinStop  *)
(* are declared in service.h).                                             *)
(***************************************************************************)
pinStart(s, r) == [s EXCEPT !.pinned_started[r] = TRUE]

pinStop(s, r) == [s EXCEPT !.pinned_stopped[r] = TRUE]

\* service_set::stopService, service.cc:50
stopService(s, r) == Call("stop", s, r, TRUE)

\* A handler invoked by name from inside another handler (a direct or virtual member
\* call in service.cc); r and x are the record and the flag the handler takes, if any.
Call(fn, s0, r, x) ==
    Bind(s0, LAMBDA s :
    CASE fn = "require" -> require(s, r)
      [] fn = "release" -> release(s, r)
      [] fn = "release_dependencies" -> release_dependencies(s, r)
      [] fn = "forceStop" -> forceStop(s, r)
      [] fn = "dependentStopped" -> dependentStopped(s, r)
      [] fn = "dependencyStarted" -> dependencyStarted(s, r)
      [] fn = "stopDependents" -> stopDependents(s, r)
      [] fn = "startCheckDependencies" -> startCheckDependencies(s, r, x)
      [] fn = "pull_console_queue" -> pull_console_queue(s)
      [] fn = "queue_for_console" -> queue_for_console(s, r)
      [] fn = "release_console" -> release_console(s, r)
      [] fn = "interrupt_start" -> interrupt_start(s, r)
      [] fn = "do_stop" -> do_stop(s, r)
      [] fn = "stop" -> stop(s, r, x)
      [] fn = "start" -> start(s, r, x)
      [] fn = "started" -> started(s, r)
      [] fn = "failed_to_start" -> failed_to_start(s, r, x)
      [] fn = "stopped" -> stopped(s, r)
      [] fn = "emergency_stop" -> emergency_stop(s, r)
      [] fn = "start_ps_process" -> start_ps_process(s, r)
      [] fn = "do_restart" -> do_restart(s, r)
      [] fn = "restart_ps_process" -> restart_ps_process(s, r)
      [] fn = "allDepsStarted" -> allDepsStarted(s, r, x)
      [] fn = "acquiredConsole" -> acquiredConsole(s, r)
      [] fn = "do_propagation" -> do_propagation(s, r)
      [] fn = "all_deps_stopped" -> all_deps_stopped(s, r)
      [] fn = "execute_transition" -> execute_transition(s, r)
      [] fn = "do_start" -> do_start(s, r)
      [] fn = "process_queues" -> process_queues(s)
      [] fn = "unpin" -> unpin(s, r)
      [] fn = "handle_exit_status" -> handle_exit_status(s, r, x))

(***************************************************************************)
(* The state machine.                                                      *)
(***************************************************************************)
PidResults == {"OK_TRACK", "OK_NOTRACK", "TERM0", "TERM1", "FAILED"}

ForkFailures == SUBSET cfg.fork_may_fail

SocketFailures == SUBSET cfg.socket_may_fail

PidFindings ==
    IF \E r \in Svc : cfg.record_type[r] = "BGPROCESS" THEN PidResults ELSE {"OK_TRACK"}

(***************************************************************************)
(* dinitctl.cc: one run of the control utility.  The utility blocks in     *)
(* reads of the control socket; ctl.pc is the read it is blocked in and    *)
(* each step hands it what that read (and the write after it) yields.      *)
(***************************************************************************)
ServiceCommands ==
    {"START_SERVICE", "WAKE_SERVICE", "STOP_SERVICE", "RELEASE_SERVICE",
     "UNPIN_SERVICE", "UNLOAD_SERVICE"}

\* reply bytes of the daemon; BADREQ stands for every byte the utility does not
\* expect, READFAIL for a read that fails or finds the connection closed
Replies == {"SERVICERECORD", "NOSERVICE", "ACK", "NAK", "ALREADYSS", "BADREQ", "READFAIL"}

\* what arrives while the utility waits for the service: a service event (for the
\* handle of this run or another), another information packet, a byte that is no
\* information packet, or the end of the stream
Packets ==
    [kind : {"SERVICEEVENT"}, own : BOOLEAN,
     event : {"STARTED", "STOPPED", "FAILEDSTART", "STARTCANCELLED", "STOPCANCELLED"}]
    \cup [kind : {"OTHERINFO", "NOTINFO", "CLOSED"}, own : {FALSE}, event : {"STARTED"}]

CtlInputs == [write_ok : BOOLEAN, reply : Replies, state : States, pkt : Packets]

CtlIdle ==
    [pc |-> "args", command |-> "NONE", do_pin |-> FALSE, wait_for_service |-> TRUE,
     state |-> STOPPED, load_reply |-> "NONE", cmd_reply |-> "NONE", ret |-> -1]

\* return from main with status n
Return(c, n) == [c EXCEPT !.pc = "exited", !.ret = n]

issue_load_service(write_ok) == IF write_ok THEN 0 ELSE 1

check_load_reply(reply) == IF reply = "SERVICERECORD" THEN 0 ELSE 1

start_stop_service(c, in) ==
    LET stop_wanted == c.command \in {"STOP_SERVICE", "RELEASE_SERVICE"}
        completionEvent == IF stop_wanted THEN "STOPPED" ELSE "STARTED"
        cancelledEvent == IF stop_wanted THEN "STOPCANCELLED" ELSE "STARTCANCELLED"
    IN  CASE c.pc = "main" ->
                IF issue_load_service(in.write_ok) # 0
                THEN Return(c, 1)
                ELSE [c EXCEPT !.pc = "load_reply"]
          [] c.pc = "load_reply" ->
                LET c1 == [c EXCEPT !.load_reply = in.reply]
                IN  IF check_load_reply(in.reply) # 0
                    THEN Return(c1, 0)
                    ELSE IF ~in.write_ok
                    THEN Return(c1, 1)
                    ELSE [c1 EXCEPT !.pc = "cmd_reply", !.state = in.state]
          [] c.pc = "cmd_reply" ->
                LET c1 == [c EXCEPT !.cmd_reply = in.reply]
                IN  IF in.reply = "ALREADYSS"
                    THEN Return(c1, 0)
                    ELSE IF in.reply # "ACK"
                    THEN Return(c1, 1)
                    ELSE IF ~c.wait_for_service
                    THEN Return(c1, 0)
                    ELSE [c1 EXCEPT !.pc = "events"]
          [] OTHER ->
                IF in.pkt.kind \in {"NOTINFO", "CLOSED"}
                THEN Return(c, 1)
                ELSE IF in.pkt.kind = "SERVICEEVENT" /\ in.pkt.own
                THEN IF in.pkt.event = completionEvent
                     THEN Return(c, 0)
                     ELSE IF in.pkt.event = cancelledEvent
                     THEN Return(c, 1)
                     ELSE IF ~stop_wanted /\ in.pkt.event = "FAILEDSTART"
                     THEN Return(c, 1)
                     ELSE c
                ELSE c

unpin_service(c, in) ==
    CASE c.pc = "main" ->
            IF issue_load_service(in.write_ok) = 1
            THEN Return(c, 1)
            ELSE [c EXCEPT !.pc = "load_reply"]
      [] c.pc = "load_reply" ->
            LET c1 == [c EXCEPT !.load_reply = in.reply]
            IN  IF check_load_reply(in.reply) # 0
                THEN Return(c1, 1)
                ELSE IF ~in.write_ok
                THEN Return(c1, 1)
                ELSE [c1 EXCEPT !.pc = "cmd_reply"]
      [] OTHER ->
            LET c1 == [c EXCEPT !.cmd_reply = in.reply]
            IN  IF in.reply # "ACK" THEN Return(c1, 1) ELSE Return(c1, 0)

unload_service(c, in) ==
    CASE c.pc = "main" ->
            IF issue_load_service(in.write_ok) = 1
            THEN Return(c, 1)
            ELSE [c EXCEPT !.pc = "load_reply"]
      [] c.pc = "load_reply" ->
            LET c1 == [c EXCEPT !.load_reply = in.reply]
            IN  IF check_load_reply(in.reply) # 0
                THEN Return(c1, 1)
                ELSE IF ~in.write_ok
                THEN Return(c1, 1)
                ELSE [c1 EXCEPT !.pc = "cmd_reply"]
      [] OTHER ->
            LET c1 == [c EXCEPT !.cmd_reply = in.reply]
            IN  IF in.reply = "NAK"
                THEN Return(c1, 1)
                ELSE IF in.reply # "ACK" THEN Return(c1, 1) ELSE Return(c1, 0)

\* main from the point where the socket is connected: the command's function, with
\* the handlers that turn a failed read of a reply into exit status 1
main(c, in) ==
    IF c.pc \in {"load_reply", "cmd_reply"} /\ in.reply = "READFAIL"
    THEN Return(c, 1)
    ELSE IF c.command = "UNPIN_SERVICE"
    THEN unpin_service(c, in)
    ELSE IF c.command = "UNLOAD_SERVICE"
    THEN unload_service(c, in)
    ELSE start_stop_service(c, in)

\* the engine after the loader has built the records of description c
InitWith(c) ==
    /\ cfg = c
    /\ service_state = [r \in Svc |-> STOPPED]
    /\ desired_state = [r \in Svc |-> STOPPED]
    /\ required_by = [r \in Svc |-> 0]
    /\ waiting_for_deps = [r \in Svc |-> FALSE]
    /\ force_stop = [r \in Svc |-> FALSE]
    /\ start_explicit = [r \in Svc |-> FALSE]
    /\ restarting = [r \in Svc |-> FALSE]
    /\ pinned_started = [r \in Svc |-> FALSE]
    /\ pinned_stopped = [r \in Svc |-> FALSE]
    /\ prop_require = [r \in Svc |-> FALSE]
    /\ prop_release = [r \in Svc |-> FALSE]
    /\ prop_failure = [r \in Svc |-> FALSE]
    /\ prop_start = [r \in Svc |-> FALSE]
    /\ prop_stop = [r \in Svc |-> FALSE]
    /\ holding_acq = [e \in SoftEdges |-> FALSE]
    /\ waiting_on = [e \in SoftEdges |-> FALSE]
    /\ pid = [r \in Svc |-> -1]
    /\ exit_status = [r \in Svc |-> 0]
    /\ waiting_for_execstat = [r \in Svc |-> FALSE]
    /\ waiting_restart_timer = [r \in Svc |-> FALSE]
    /\ restart_interval_count = [r \in Svc |-> 0]
    /\ restart_interval_time = [r \in Svc |-> 0]
    /\ last_start_time = [r \in Svc |-> 0]
    /\ socket_fd = [r \in Svc |-> -1]
    /\ doing_recovery = [r \in Svc |-> FALSE]
    /\ tracking_child = [r \in Svc |-> FALSE]
    /\ restart_timer = [r \in Svc |-> FALSE]
    /\ prop_queue = <<>>
    /\ start_queue = <<>>
    /\ stop_queue = <<>>
    /\ console_queue = <<>>
    /\ console_busy = FALSE
    /\ console_holders = {}
    /\ active_services = 0
    /\ child_watch = [r \in Svc |-> FALSE]
    /\ execstat_watch = [r \in Svc |-> FALSE]
    /\ now = 0
    /\ phase = "idle"
    /\ commands = 0
    /\ advances = 0
    /\ events = <<>>
    /\ last = [act |-> "init", svc |-> 0, calls |-> <<>>]
    /\ ctl = CtlIdle

Init == \E c \in Scenarios : InitWith(c)

QueuesEmpty(s) == s.prop_queue = <<>> /\ s.start_queue = <<>> /\ s.stop_queue = <<>>

\* A dispatch ends in process_queues: the tick starts with the propagation queue.
Dispatch(s0, act, r) ==
    \E s \in {s0} :
        /\ Set(s, act, r)
        /\ phase' = IF QueuesEmpty(s) THEN "idle" ELSE "prop"

Request(s, act, r) ==
    /\ Dispatch(s, act, r)
    /\ commands' = commands + 1
    /\ advances' = advances

Event(s, act, r) ==
    /\ Dispatch(s, act, r)
    /\ UNCHANGED <<commands, advances>>

\* control request START (service_record::start(true)), optionally pinning
StartService(r, pin) ==
    /\ phase = "idle" /\ commands < MaxCommands
    /\ "start" \in cfg.requests
    /\ pin => r \in cfg.pinnable /\ ~pinned_stopped[r]
    /\ \E ff \in ForkFailures, sf \in SocketFailures, pr \in PidFindings :
         LET s == Cur(ff, sf, pr)
         IN Request(start(IF pin THEN pinStart(s, r) ELSE s, r, TRUE), "start", r)

\* control request WAKE (service_record::start(false))
WakeService(r) ==
    /\ phase = "idle" /\ commands < MaxCommands
    /\ "wake" \in cfg.requests
    /\ \E ff \in ForkFailures, sf \in SocketFailures, pr \in PidFindings :
         Request(start(Cur(ff, sf, pr), r, FALSE), "wake", r)

\* control request STOP (service_set::stopService), optionally pinning
StopService(r, pin) ==
    /\ phase = "idle" /\ commands < MaxCommands
    /\ "stop" \in cfg.requests
    /\ pin => r \in cfg.pinnable /\ ~pinned_started[r]
    /\ \E ff \in ForkFailures, sf \in SocketFailures, pr \in PidFindings :
         LET s == Cur(ff, sf, pr)
         IN Request(stopService(IF pin THEN pinStop(s, r) ELSE s, r), "stop", r)

\* control request RELEASE (service_record::stop(false))
ReleaseService(r) ==
    /\ phase = "idle" /\ commands < MaxCommands
    /\ "release" \in cfg.requests
    /\ \E ff \in ForkFailures, sf \in SocketFailures, pr \in PidFindings :
         Request(stop(Cur(ff, sf, pr), r, FALSE), "release", r)

\* control request UNPIN (service_record::unpin)
UnpinService(r) ==
    /\ phase = "idle" /\ commands < MaxCommands
    /\ "unpin" \in cfg.requests
    /\ pinned_started[r] \/ pinned_stopped[r]
    /\ \E ff \in ForkFailures, sf \in SocketFailures, pr \in PidFindings :
         Request(unpin(Cur(ff, sf, pr), r), "unpin", r)

\* the reactor reports the exit of the child of r
ChildExit(r, status) ==
    /\ phase = "idle" /\ child_watch[r]
    /\ \E ff \in ForkFailures, sf \in SocketFailures, pr \in PidFindings :
         Event(status_change(Cur(ff, sf, pr), r, status), "child_exit", r)

\* the reactor reports the exec-status pipe of r readable (errno) or closed (EOF)
ExecStatus(r, failed) ==
    /\ phase = "idle" /\ execstat_watch[r]
    /\ failed => /\ r \in cfg.exec_may_fail
                 /\ pid[r] # -1 \/ exit_status[r] = 0
    /\ \E ff \in ForkFailures, sf \in SocketFailures, pr \in PidFindings :
         Event(fd_event(Cur(ff, sf, pr), r, failed), "exec_status", r)

\* the reactor reports the restart timer of r expired
TimerExpiry(r) ==
    /\ phase = "idle" /\ restart_timer[r]
    /\ \E ff \in ForkFailures, sf \in SocketFailures, pr \in PidFindings :
         Event(timer_expiry(Cur(ff, sf, pr), r), "timer_expiry", r)

\* the monotonic clock is seen to have advanced
AdvanceTime(d) ==
    /\ phase = "idle" /\ advances < MaxAdvances
    /\ cfg.clock
    /\ now' = now + d
    /\ advances' = advances + 1
    /\ events' = <<>>
    /\ last' = [act |-> "advance", svc |-> 0, calls |-> <<>>]
    /\ UNCHANGED <<cfg, service_state, desired_state, required_by, waiting_for_deps,
                   force_stop, start_explicit, restarting, pinned_started, pinned_stopped,
                   prop_require, prop_release, prop_failure, prop_start, prop_stop,
                   holding_acq, waiting_on, pid, exit_status, waiting_for_execstat,
                   waiting_restart_timer, restart_interval_count, restart_interval_time,
                   last_start_time, socket_fd, doing_recovery, tracking_child,
                   restart_timer, prop_queue, start_queue, stop_queue, console_queue,
                   console_busy, console_holders, active_services, child_watch,
                   execstat_watch, phase, commands, ctl>>

\* The queue whose loop process_queues runs next (service.h): propagation, then
\* start, then stop, each drained before the next, repeated while any has work.
NextQueue ==
    IF phase = "prop"
    THEN IF prop_queue # <<>> THEN "prop"
         ELSE IF start_queue # <<>> THEN "start"
         ELSE IF stop_queue # <<>> THEN "stop" ELSE "idle"
    ELSE IF phase = "start"
    THEN IF start_queue # <<>> THEN "start"
         ELSE IF stop_queue # <<>> THEN "stop"
         ELSE IF prop_queue # <<>> THEN "prop" ELSE "idle"
    ELSE IF phase = "stop"
    THEN IF stop_queue # <<>> THEN "stop"
         ELSE IF prop_queue # <<>> THEN "prop"
         ELSE IF start_queue # <<>> THEN "start" ELSE "idle"
    ELSE "idle"

Step(s0, q, act, r) ==
    \E s \in {s0} :
        /\ Set(s, act, r)
        /\ phase' = IF QueuesEmpty(s) THEN "idle" ELSE q
        /\ UNCHANGED <<commands, advances>>

\* one iteration of the propagation loop of process_queues
PropagateStep ==
    /\ NextQueue = "prop"
    /\ \E ff \in ForkFailures, sf \in SocketFailures, pr \in PidFindings :
         LET s == Cur(ff, sf, pr)
             r == Head(prop_queue)
         IN Step(do_propagation([s EXCEPT !.prop_queue = Tail(@)], r),
                 "prop", "do_propagation", r)

\* one iteration of the start loop of process_queues
StartStep ==
    /\ NextQueue = "start"
    /\ \E ff \in ForkFailures, sf \in SocketFailures, pr \in PidFindings :
         LET s == Cur(ff, sf, pr)
             r == Head(start_queue)
         IN Step(execute_transition([s EXCEPT !.start_queue = Tail(@)], r),
                 "start", "execute_start", r)

\* one iteration of the stop loop of process_queues
StopStep ==
    /\ NextQueue = "stop"
    /\ \E ff \in ForkFailures, sf \in SocketFailures, pr \in PidFindings :
         LET s == Cur(ff, sf, pr)
             r == Head(stop_queue)
         IN Step(execute_transition([s EXCEPT !.stop_queue = Tail(@)], r),
                 "stop", "execute_stop", r)

ExitStatuses == {0, 1}

TimeSteps == {1, restart_interval}

Next ==
    \/ \E r \in cfg.targets, pin \in BOOLEAN : StartService(r, pin)
    \/ \E r \in cfg.targets : WakeService(r)
    \/ \E r \in cfg.targets, pin \in BOOLEAN : StopService(r, pin)
    \/ \E r \in cfg.targets : ReleaseService(r)
    \/ \E r \in cfg.targets : UnpinService(r)
    \/ \E r \in Svc, status \in ExitStatuses : ChildExit(r, status)
    \/ \E r \in Svc, failed \in BOOLEAN : ExecStatus(r, failed)
    \/ \E r \in Svc : TimerExpiry(r)
    \/ \E d \in TimeSteps : AdvanceTime(d)
    \/ PropagateStep
    \/ StartStep
    \/ StopStep

Spec == Init /\ [][Next]_vars

(***************************************************************************)
(* A round trip: after one earlier request on another record, start(true)  *)
(* on a record that is STOPPED and not required, then stop(true) on it,    *)
(* each after a complete tick, with the child events delivered in any      *)
(* order in between and afterwards.                                        *)
(***************************************************************************)
InitRoundTrip ==
    \E c \in Scenarios : \E r \in c.targets : InitWith([c EXCEPT !.subject = r])

RoundTripSetup ==
    /\ commands = 0
    /\ \E x \in Svc \ {cfg.subject} :
          \/ StartService(x, FALSE)
          \/ WakeService(x)
          \/ StopService(x, FALSE)

RoundTripStart ==
    /\ commands = 1
    /\ service_state[cfg.subject] = STOPPED /\ required_by[cfg.subject] = 0
    /\ StartService(cfg.subject, FALSE)

RoundTripStop ==
    /\ commands = 2
    /\ StopService(cfg.subject, FALSE)

NextRoundTrip ==
    \/ RoundTripSetup
    \/ RoundTripStart
    \/ RoundTripStop
    \/ \E r \in Svc, status \in ExitStatuses : ChildExit(r, status)
    \/ \E r \in Svc, failed \in BOOLEAN : ExecStatus(r, failed)
    \/ \E r \in Svc : TimerExpiry(r)
    \/ \E d \in TimeSteps : AdvanceTime(d)
    \/ PropagateStep
    \/ StartStep
    \/ StopStep

SpecRoundTrip == InitRoundTrip /\ [][NextRoundTrip]_vars

(***************************************************************************)
(* Pinning: one record of the description may be pinned by the requests.   *)
(* The reactor is fair: a tick that has work runs on, an exec-status pipe  *)
(* is reported, a child that was signalled exits and is reported, an armed *)
(* timer expires.                                                          *)
(***************************************************************************)
PinScenarios == {CfgTop, CfgRecover}

InitPin ==
    \E c \in PinScenarios : \E x \in c.targets :
        InitWith([c EXCEPT !.pinnable = {x}, !.subject = x])

\* all_deps_stopped has run for r: the child, if any, has been sent its signal
Signalled(r) == service_state[r] = STOPPING /\ ~waiting_for_deps[r]

FairReactor ==
    /\ WF_vars(PropagateStep)
    /\ WF_vars(StartStep)
    /\ WF_vars(StopStep)
    /\ \A r \in Svc : SF_vars(\E failed \in BOOLEAN : ExecStatus(r, failed))
    /\ \A r \in Svc : SF_vars(\E status \in ExitStatuses : Signalled(r) /\ ChildExit(r, status))
    /\ \A r \in Svc : SF_vars(TimerExpiry(r))

\* any requests, with the pin allowed on the chosen record
SpecPin == InitPin /\ [][Next]_vars

\* pin the record started as it is started, stop it once it is STARTED, unpin it
PinStart ==
    /\ commands = 0
    /\ StartService(cfg.subject, TRUE)

PinStop ==
    /\ commands = 1
    /\ service_state[cfg.subject] = STARTED /\ pinned_started[cfg.subject]
    /\ StopService(cfg.subject, FALSE)

PinUnpin ==
    /\ commands = 2
    /\ desired_state[cfg.subject] = STOPPED
    /\ UnpinService(cfg.subject)

NextUnpin ==
    \/ PinStart
    \/ PinStop
    \/ PinUnpin
    \/ \E r \in Svc, status \in ExitStatuses : ChildExit(r, status)
    \/ \E r \in Svc, failed \in BOOLEAN : ExecStatus(r, failed)
    \/ \E r \in Svc : TimerExpiry(r)
    \/ \E d \in TimeSteps : AdvanceTime(d)
    \/ PropagateStep
    \/ StartStep
    \/ StopStep

\* ... and the unpin request that the stop is followed by is issued
SpecUnpin == InitPin /\ [][NextUnpin]_vars /\ FairReactor /\ SF_vars(PinUnpin)

(***************************************************************************)
(* Scenarios E1 and E2: with every record STOPPED one service is started;  *)
(* when the whole chain has STARTED, its bottom record is stopped.  Each   *)
(* exec succeeds and a child lives until it is signalled.                  *)
(***************************************************************************)
\* A depends on B depends on C, all PROCESS.
CfgProcChain ==
    [BaseCfg EXCEPT !.name = "procchain",
                    !.record_type = <<"PROCESS", "PROCESS", "PROCESS">>,
                    !.set_auto_restart = FALSE,
                    !.requests = {"start", "stop"}]

ChainScenarios == {CfgChain, CfgForce, CfgProcChain}

ChainTop == 1

ChainBottom == 3

InitChain ==
    \E c \in ChainScenarios : \E x \in Svc : InitWith([c EXCEPT !.subject = x])

ChainStart ==
    /\ commands = 0
    /\ StartService(cfg.subject, FALSE)

ChainStop ==
    /\ commands = 1
    /\ cfg.subject = ChainTop
    /\ \A r \in Svc : service_state[r] = STARTED
    /\ StopService(ChainBottom, FALSE)

NextChain ==
    \/ ChainStart
    \/ ChainStop
    \/ \E r \in Svc, status \in ExitStatuses : Signalled(r) /\ ChildExit(r, status)
    \/ \E r \in Svc : ExecStatus(r, FALSE)
    \/ PropagateStep
    \/ StartStep
    \/ StopStep

FairChain ==
    /\ WF_vars(PropagateStep) /\ WF_vars(StartStep) /\ WF_vars(StopStep)
    /\ \A r \in Svc : WF_vars(ExecStatus(r, FALSE))
    /\ \A r \in Svc : WF_vars(\E status \in ExitStatuses : Signalled(r) /\ ChildExit(r, status))
    /\ WF_vars(ChainStart) /\ WF_vars(ChainStop)

SpecChain == InitChain /\ [][NextChain]_vars /\ FairChain

(***************************************************************************)
(* Smooth recovery: a service is started and from then on its child may    *)
(* exit at any time; no further request is made.  The reactor reports the  *)
(* exec status and the expiry of an armed timer.                           *)
(***************************************************************************)
RecoverScenarios == {CfgRecover}

InitRecover ==
    \E c \in RecoverScenarios : \E x \in c.targets : InitWith([c EXCEPT !.subject = x])

RecoverStart ==
    /\ commands = 0
    /\ StartService(cfg.subject, FALSE)

NextRecover ==
    \/ RecoverStart
    \/ \E r \in Svc, status \in ExitStatuses : ChildExit(r, status)
    \/ \E r \in Svc : ExecStatus(r, FALSE)
    \/ \E r \in Svc : TimerExpiry(r)
    \/ \E d \in TimeSteps : AdvanceTime(d)
    \/ PropagateStep
    \/ StartStep
    \/ StopStep

FairRecover ==
    /\ WF_vars(PropagateStep) /\ WF_vars(StartStep) /\ WF_vars(StopStep)
    /\ \A r \in Svc : WF_vars(ExecStatus(r, FALSE))
    /\ \A r \in Svc : WF_vars(TimerExpiry(r))

SpecRecover == InitRecover /\ [][NextRecover]_vars /\ FairRecover

(***************************************************************************)
(* Scenario E6: two services that run on the console are started one after *)
(* the other, then the first is stopped.  Each exec succeeds and a child   *)
(* lives until it is signalled.                                            *)
(***************************************************************************)
\* Two PROCESS services that start and run on the console, no dependencies.
CfgTwoConsole ==
    [BaseCfg EXCEPT !.name = "twoconsole",
                    !.record_type = <<"PROCESS", "PROCESS", "INTERNAL">>,
                    !.depends_on = << <<>>, <<>>, <<>> >>,
                    !.starts_on_console = {1, 2},
                    !.runs_on_console = {1, 2},
                    !.set_auto_restart = FALSE,
                    !.requests = {"start", "stop"},
                    !.targets = {1, 2}]

\* The same with the second service depending on an INTERNAL record.
CfgConsoleDep ==
    [CfgTwoConsole EXCEPT !.name = "consoledep",
                          !.depends_on = << <<>>, <<3>>, <<>> >>]

\* The same with both services depending on an INTERNAL record.
CfgConsoleShared ==
    [CfgTwoConsole EXCEPT !.name = "consoleshared",
                          !.depends_on = << <<3>>, <<3>>, <<>> >>]

ConsoleScenarios == {CfgTwoConsole, CfgConsoleDep, CfgConsoleShared}

\* X is the subject of the scenario, Y the other console service
ConsoleX == cfg.subject

ConsoleY == CHOOSE y \in cfg.targets : y # cfg.subject

InitConsole ==
    \E c \in ConsoleScenarios : \E x \in c.targets : InitWith([c EXCEPT !.subject = x])

ConsoleStartX ==
    /\ commands = 0
    /\ StartService(ConsoleX, FALSE)

ConsoleStartY ==
    /\ commands = 1
    /\ StartService(ConsoleY, FALSE)

ConsoleStopX ==
    /\ commands = 2
    /\ service_state[ConsoleX] = STARTED
    /\ StopService(ConsoleX, FALSE)

NextConsole ==
    \/ ConsoleStartX
    \/ ConsoleStartY
    \/ ConsoleStopX
    \/ \E r \in Svc, status \in ExitStatuses : Signalled(r) /\ ChildExit(r, status)
    \/ \E r \in Svc : ExecStatus(r, FALSE)
    \/ PropagateStep
    \/ StartStep
    \/ StopStep

FairConsole ==
    /\ WF_vars(PropagateStep) /\ WF_vars(StartStep) /\ WF_vars(StopStep)
    /\ \A r \in Svc : WF_vars(ExecStatus(r, FALSE))
    /\ \A r \in Svc : WF_vars(\E status \in ExitStatuses : Signalled(r) /\ ChildExit(r, status))
    /\ WF_vars(ConsoleStartX) /\ WF_vars(ConsoleStartY) /\ WF_vars(ConsoleStopX)

SpecConsole == InitConsole /\ [][NextConsole]_vars /\ FairConsole

(***************************************************************************)
(* A soft dependency during a start: F is started, and while its soft      *)
(* dependency T is STARTING a stop of T may be requested.  The exec of a    *)
(* command succeeds or fails; a child lives until it is signalled.         *)
(***************************************************************************)
\* F has a soft dependency on INTERNAL T, which waits for a PROCESS service.
CfgSoftWait ==
    [BaseCfg EXCEPT !.name = "softwait",
                    !.record_type = <<"INTERNAL", "PROCESS", "INTERNAL">>,
                    !.depends_on = << <<>>, <<>>, <<2>> >>,
                    !.soft = << <<1, 3>> >>,
                    !.exec_may_fail = {2},
                    !.set_auto_restart = FALSE,
                    !.requests = {"start", "stop"},
                    !.targets = {1, 3}]

\* F has a hard dependency on one PROCESS service and a soft one on another.
CfgSoftProc ==
    [CfgSoft EXCEPT !.name = "softproc",
                    !.record_type = <<"INTERNAL", "PROCESS", "PROCESS">>,
                    !.exec_may_fail = {2, 3}]

SoftScenarios == {CfgSoft, CfgSoftWait, CfgSoftProc}

InitSoft ==
    \E c \in SoftScenarios : InitWith([c EXCEPT !.subject = c.soft[1][1]])

SoftStart ==
    /\ commands = 0
    /\ StartService(getFrom(1), FALSE) \/ WakeService(getFrom(1))

SoftStopTarget ==
    /\ commands = 1
    /\ service_state[getTo(1)] = STARTING
    /\ StopService(getTo(1), FALSE)

NextSoft ==
    \/ SoftStart
    \/ SoftStopTarget
    \/ \E r \in Svc, status \in ExitStatuses : Signalled(r) /\ ChildExit(r, status)
    \/ \E r \in Svc, failed \in BOOLEAN : ExecStatus(r, failed)
    \/ PropagateStep
    \/ StartStep
    \/ StopStep

FairSoft ==
    /\ WF_vars(PropagateStep) /\ WF_vars(StartStep) /\ WF_vars(StopStep)
    /\ \A r \in Svc : WF_vars(\E failed \in BOOLEAN : ExecStatus(r, failed))
    /\ \A r \in Svc : WF_vars(\E status \in ExitStatuses : Signalled(r) /\ ChildExit(r, status))

SpecSoft == InitSoft /\ [][NextSoft]_vars /\ FairSoft

(***************************************************************************)
(* One run of dinitctl against a daemon whose replies are arbitrary.       *)
(***************************************************************************)
InitCtl == InitWith(CfgChain)

EngineIdle ==
    UNCHANGED <<cfg, service_state, desired_state, required_by, waiting_for_deps,
                force_stop, start_explicit, restarting, pinned_started, pinned_stopped,
                prop_require, prop_release, prop_failure, prop_start, prop_stop,
                holding_acq, waiting_on, pid, exit_status, waiting_for_execstat,
                waiting_restart_timer, restart_interval_count, restart_interval_time,
                last_start_time, socket_fd, doing_recovery, tracking_child,
                restart_timer, prop_queue, start_queue, stop_queue, console_queue,
                console_busy, console_holders, active_services, child_watch,
                execstat_watch, now, phase, commands, advances, events, last>>

\* dinitctl [--pin] [--no-wait] <command> <service-name>
CtlRun(command, do_pin, wait_for_service) ==
    /\ ctl.pc = "args"
    /\ ctl' = [ctl EXCEPT !.pc = "main", !.command = command, !.do_pin = do_pin,
                          !.wait_for_service = wait_for_service]
    /\ EngineIdle

\* the utility runs up to its next blocking read, or to its exit
CtlStep(in) ==
    /\ ctl.pc \notin {"args", "exited"}
    /\ ctl' = main(ctl, in)
    /\ EngineIdle

NextCtl ==
    \/ \E command \in ServiceCommands, do_pin, wait_for_service \in BOOLEAN :
         CtlRun(command, do_pin, wait_for_service)
    \/ \E in \in CtlInputs : CtlStep(in)

SpecCtl == InitCtl /\ [][NextCtl]_vars

(***************************************************************************)
(* Any requests and events, with process_queues always running on: the     *)
(* loops of a tick are not suspended.                                      *)
(***************************************************************************)
FairTicks ==
    /\ WF_vars(PropagateStep)
    /\ WF_vars(StartStep)
    /\ WF_vars(StopStep)

SpecTicks == Spec /\ FairTicks

(***************************************************************************)
(* Services are started or woken, then one STARTED service is stopped and  *)
(* no further request is made; the reactor is fair.                        *)
(***************************************************************************)
InitStop ==
    \E c \in Scenarios : \E x \in c.targets : InitWith([c EXCEPT !.subject = x])

StopSetup ==
    /\ commands < MaxCommands - 1
    /\ \E r \in cfg.targets : StartService(r, FALSE) \/ WakeService(r)

StopApply ==
    /\ commands = MaxCommands - 1
    /\ service_state[cfg.subject] = STARTED /\ ~pinned_started[cfg.subject]
    /\ StopService(cfg.subject, FALSE)

NextStop ==
    \/ StopSetup
    \/ StopApply
    \/ \E r \in Svc, status \in ExitStatuses : ChildExit(r, status)
    \/ \E r \in Svc, failed \in BOOLEAN : ExecStatus(r, failed)
    \/ \E r \in Svc : TimerExpiry(r)
    \/ \E d \in TimeSteps : AdvanceTime(d)
    \/ PropagateStep
    \/ StartStep
    \/ StopStep

SpecStop == InitStop /\ [][NextStop]_vars /\ FairReactor

(***************************************************************************)
(* require() and release() are public: a caller (a dependent's propagation, *)
(* a request) may call either on a record at any point of a tick, before    *)
(* the record's own do_propagation has run.                                 *)
(***************************************************************************)
PairScenarios == {CfgChain, CfgSoft, CfgForce}

InitPair == \E c \in PairScenarios : InitWith(c)

\* a call made by a caller outside the record, between two handlers of the tick
Caller(s0, act, r) ==
    \E s \in {s0} :
        /\ Set(s, act, r)
        /\ phase' = IF QueuesEmpty(s) THEN "idle" ELSE IF phase = "idle" THEN "prop" ELSE phase
        /\ commands' = commands + 1
        /\ advances' = advances

PairRequire(r) ==
    /\ commands < MaxCommands
    /\ \E ff \in ForkFailures, sf \in SocketFailures, pr \in PidFindings :
         Caller(require(Cur(ff, sf, pr), r), "require", r)

PairRelease(r) ==
    /\ commands < MaxCommands
    /\ required_by[r] > 0
    /\ \E ff \in ForkFailures, sf \in SocketFailures, pr \in PidFindings :
         Caller(release(Cur(ff, sf, pr), r), "release", r)

NextPair ==
    \/ \E r \in cfg.targets : StartService(r, FALSE)
    \/ \E r \in cfg.targets : StopService(r, FALSE)
    \/ \E r \in Svc : PairRequire(r)
    \/ \E r \in Svc : PairRelease(r)
    \/ PropagateStep
    \/ StartStep
    \/ StopStep

SpecPair == InitPair /\ [][NextPair]_vars

(***************************************************************************)
(* Activation sockets: any requests and events on a description whose      *)
(* PROCESS service has an activation socket, with and without auto-restart. *)
(***************************************************************************)
CfgSocketRestart ==
    [CfgSocket EXCEPT !.name = "socketrestart",
                      !.set_auto_restart = TRUE,
                      !.pinnable = {2},
                      !.clock = TRUE,
                      !.targets = {2}]

SocketScenarios == {CfgSocket, CfgSocketRestart}

InitSocket == \E c \in SocketScenarios : InitWith(c)

SpecSocket == InitSocket /\ [][Next]_vars

(***************************************************************************)
(* Services are started, woken or stopped, then start(true) is requested   *)
(* for one service that is not STARTED and no further request is made; the *)
(* reactor is fair.                                                        *)
(***************************************************************************)
StartSetup ==
    /\ commands < MaxCommands - 1
    /\ \E r \in cfg.targets :
         StartService(r, FALSE) \/ WakeService(r) \/ StopService(r, FALSE)

StartApply ==
    /\ commands = MaxCommands - 1
    /\ service_state[cfg.subject] # STARTED
    /\ StartService(cfg.subject, FALSE)

NextStart ==
    \/ StartSetup
    \/ StartApply
    \/ \E r \in Svc, status \in ExitStatuses : ChildExit(r, status)
    \/ \E r \in Svc, failed \in BOOLEAN : ExecStatus(r, failed)
    \/ \E r \in Svc : TimerExpiry(r)
    \/ \E d \in TimeSteps : AdvanceTime(d)
    \/ PropagateStep
    \/ StartStep
    \/ StopStep

\* the command of r whose exit completes the start is still running
Launching(r) ==
    service_state[r] = STARTING /\ cfg.record_type[r] \in {"SCRIPTED", "BGPROCESS"}

\* a fair reactor whose start commands also terminate
FairStart ==
    /\ FairReactor
    /\ \A r \in Svc : SF_vars(\E status \in ExitStatuses : Launching(r) /\ ChildExit(r, status))

SpecStart == InitStop /\ [][NextStart]_vars /\ FairStart

(***************************************************************************)
(* Smooth recovery of a PROCESS service whose fork and exec may fail and   *)
(* which may be pinned started.                                            *)
(***************************************************************************)
CfgRecoverFail ==
    [CfgRecover EXCEPT !.name = "recoverfail", !.fork_may_fail = {2},
                       !.exec_may_fail = {2}, !.pinnable = {2}, !.targets = {2}]

InitRestart == InitWith(CfgRecoverFail)

SpecRestart == InitRestart /\ [][Next]_vars

(***************************************************************************)
(* The console scenarios under start and stop requests made in any order.  *)
(***************************************************************************)
NextConsoleFree ==
    \/ \E r \in cfg.targets : StartService(r, FALSE)
    \/ \E r \in cfg.targets : StopService(r, FALSE)
    \/ \E r \in Svc, status \in ExitStatuses : ChildExit(r, status)
    \/ \E r \in Svc : ExecStatus(r, FALSE)
    \/ PropagateStep
    \/ StartStep
    \/ StopStep

SpecConsoleFree == InitConsole /\ [][NextConsoleFree]_vars

TypeOK ==
    /\ service_state \in [Svc -> States]
    /\ desired_state \in [Svc -> {STOPPED, STARTED}]
    /\ phase \in {"idle", "prop", "start", "stop"}
    /\ phase = "idle" <=> (prop_queue = <<>> /\ start_queue = <<>> /\ stop_queue = <<>>)


(***************************************************************************)
(* Properties.                                                             *)
(***************************************************************************)
\* process_queues has returned: the tick is over
Quiescent == phase = "idle"

HardDeps(r) == SeqRange(cfg.depends_on[r])

Activations(r) ==
    Cardinality({x \in Svc : r \in HardDeps(x) /\ service_state[x] # STOPPED})
    + (IF start_explicit[r] THEN 1 ELSE 0)
    + Cardinality({e \in SoftEdges : getTo(e) = r /\ holding_acq[e]})

\* C1: after every tick required_by of every record equals the number of its
\* non-stopped hard dependents, plus one if it is explicitly started, plus the
\* number of soft edges to it that hold an acquisition.
C1_RequiredByAccounting ==
    Quiescent => \A r \in Svc : required_by[r] = Activations(r)

\* C2: after every tick a record is required exactly when its desired state is STARTED.
C2_RequiredIffDesired ==
    Quiescent => \A r \in Svc : (required_by[r] > 0 <=> desired_state[r] = STARTED)

\* C3: between handler invocations a record that waits for dependencies (or
\* dependents) is STARTING or STOPPING.
C3_WaitingOnlyInTransit ==
    \A r \in Svc : waiting_for_deps[r] => service_state[r] \in {STARTING, STOPPING}

\* C4: after every tick a STOPPED process-variant record has no child process.
C4_StoppedHasNoChild ==
    Quiescent =>
        \A r \in Svc : IsProcessVariant(r) /\ service_state[r] = STOPPED => pid[r] = -1

\* C5: after every tick every hard dependency of a STARTED record is STARTED.
C5_StartedDepsStarted ==
    Quiescent =>
        \A a \in Svc : service_state[a] = STARTED =>
            \A b \in HardDeps(a) : service_state[b] = STARTED

\* the step just taken announced STOPPED for r
StoppedNow(r) == \E i \in DOMAIN events' : events'[i] = <<r, "STOPPED">>

\* the step just taken ran all_deps_stopped on r
RanAllDepsStopped(r) ==
    \E i \in DOMAIN last'.calls :
        last'.calls[i][1] = "all_deps_stopped" /\ last'.calls[i][2] = r

\* C6: a step in which a STOPPING record runs all_deps_stopped and becomes STOPPED is
\* taken only when every direct hard dependent of the record is STOPPED, and leaves
\* them STOPPED.
C6_StopAfterDependents ==
    [][\A r \in Svc :
          (service_state[r] = STOPPING /\ StoppedNow(r) /\ RanAllDepsStopped(r)) =>
              \A x \in Svc : r \in HardDeps(x) =>
                  service_state[x] = STOPPED /\ service_state'[x] = STOPPED]_vars

\* a record with a hard dependent has just completed its stop through all_deps_stopped
C6_Witness ==
    \E r \in Svc :
        /\ \E x \in Svc : r \in HardDeps(x)
        /\ \E i \in DOMAIN last.calls :
              last.calls[i][1] = "all_deps_stopped" /\ last.calls[i][2] = r
        /\ \E i \in DOMAIN events : events[i] = <<r, "STOPPED">>
        /\ service_state[r] = STOPPED
        /\ \A x \in Svc : r \in HardDeps(x) => service_state[x] = STOPPED

NoDuplicates(q) == \A i, j \in 1..Len(q) : q[i] = q[j] => i = j

\* C7: the console has at most one owner and no record is queued for it twice.
C7_ConsoleExclusive ==
    Cardinality(console_holders) <= 1 /\ NoDuplicates(console_queue)

PropBit(r) ==
    prop_require[r] \/ prop_release[r] \/ prop_start[r] \/ prop_stop[r] \/ prop_failure[r]

\* C8: after every tick a record is on the propagation queue exactly when one of
\* its propagation bits is set.
C8_PropQueueMirrorsBits ==
    Quiescent => \A r \in Svc : InSeq(r, prop_queue) <=> PropBit(r)

\* a tick that propagated a requirement to a dependency has ended
C8_Witness ==
    /\ Quiescent /\ last.act = "do_propagation"
    /\ \E r \in Svc : required_by[r] > 0 /\ ~start_explicit[r]

ChildLaunched(r) == IsProcessVariant(r) /\ (waiting_for_execstat[r] \/ pid[r] # -1)

Settled ==
    /\ phase = "idle"
    /\ \A r \in Svc : ~child_watch[r] /\ ~execstat_watch[r] /\ ~restart_timer[r]

Requested(act, r) == last'.act = act /\ last'.svc = r /\ commands' = commands + 1

\* C11: start(true) takes the explicit activation once: it leaves start_explicit
\* set, adds one to required_by when start_explicit was clear and leaves required_by
\* alone when start_explicit was already set (so start(true); start(true) from
\* required_by = 0 leaves required_by = 1).
C11_StartActivatesOnce ==
    [][\A r \in Svc : Requested("start", r) =>
          /\ start_explicit'[r]
          /\ required_by'[r] = IF start_explicit[r] THEN required_by[r]
                                ELSE required_by[r] + 1]_vars

\* a second start(true) has just been absorbed: no activation was propagated
C11_Witness ==
    \E r \in Svc :
        /\ last.act = "start" /\ last.svc = r /\ commands >= 2
        /\ start_explicit[r] /\ required_by[r] = 1 /\ ~prop_require[r]

\* x is STARTED and pinned started, and the stop request has made its desired state
\* STOPPED; the unpin request is still to come
StopHeldByPin(x) ==
    /\ x = cfg.subject /\ commands = 2
    /\ pinned_started[x] /\ service_state[x] = STARTED /\ desired_state[x] = STOPPED

C13_PinHolds ==
    [][\A r \in Svc :
          /\ (pinned_started[r] /\ pinned_started'[r] /\ service_state[r] = STARTED)
                => service_state'[r] = STARTED
          /\ (pinned_stopped[r] /\ pinned_stopped'[r] /\ service_state[r] = STOPPED)
                => service_state'[r] = STOPPED]_vars

\* how often the step that led here invoked handle_exit_status on r
Handled(r) ==
    Cardinality({i \in DOMAIN last.calls :
                    last.calls[i][1] = "handle_exit_status" /\ last.calls[i][2] = r})

\* the exit of r's child was reported while the exec status was awaited, and waits
\* for the pipe handler
Deferred(r) == pid[r] = -1 /\ waiting_for_execstat[r] /\ execstat_watch[r]

\* C14: the exit of a launched child is handled exactly once in both delivery orders:
\* the child watcher calls handle_exit_status once unless the exec status is awaited,
\* then it calls it not at all; an exit that waits stays waiting until the pipe event;
\* the pipe handler, on EOF, calls it once if the exit had been reported (pid = -1)
\* and not at all otherwise.
C14_ExitHandledOnce ==
    [][\A r \in Svc :
          /\ (\E status \in ExitStatuses : ChildExit(r, status))
                => Handled(r)' = IF waiting_for_execstat[r] THEN 0 ELSE 1
          /\ (Deferred(r) /\ ~\E failed \in BOOLEAN : ExecStatus(r, failed))
                => Deferred(r)'
          /\ ExecStatus(r, FALSE)
                => Handled(r)' = IF pid[r] = -1 THEN 1 ELSE 0]_vars

\* x depends on r directly or through a chain of at most n hard dependencies
RECURSIVE DependsOn(_, _, _)
DependsOn(x, r, n) ==
    /\ n > 0
    /\ \/ r \in HardDeps(x)
       \/ \E y \in HardDeps(x) : DependsOn(y, r, n - 1)

\* the dispatch that led here ran emergency_stop on r (forceStop, stopDependents, stopped)
ForceStoppedNow(r) ==
    \E i \in DOMAIN last.calls :
        last.calls[i][1] = "emergency_stop" /\ last.calls[i][2] = r

\* C15: when emergency_stop force-stops r, every record that depends on r directly or
\* through a chain of hard dependencies and is not STOPPED (STOPPING included) has
\* force_stop set by the end of the tick, unless it has stopped by then (stopped()
\* clears the flag).
C15_ForceStopCascades ==
    \A r \in Svc : ForceStoppedNow(r) =>
        \A ff \in ForkFailures, sf \in SocketFailures, pr \in PidFindings :
            \A e \in {process_queues(Cur(ff, sf, pr))} :
                \A x \in Svc :
                    (DependsOn(x, r, Cardinality(Svc)) /\ service_state[x] # STOPPED)
                        => (e.force_stop[x] \/ e.service_state[x] = STOPPED)

\* the hard-dependency closure of x
Closure(x) == {x} \cup {r \in Svc : DependsOn(x, r, Cardinality(Svc))}

\* the step just taken announced ev for r as its i-th event
Emitted(i, r, ev) == i \in DOMAIN events' /\ events'[i] = <<r, ev>>

\* the one start request of the scenario has been made and nothing else
StartRequested == commands = 1 /\ last.act = "start" /\ last.svc = cfg.subject

\* C16: when a service is started with its whole hard-dependency closure STOPPED, a
\* record becomes STARTED exactly in the step that announces STARTED for it, that
\* announcement comes only after the one of each of its hard dependencies, and every
\* record of the closure ends up STARTED.
C16_StartedInDependencyOrder ==
    /\ [][\A r \in Svc :
             /\ (service_state[r] # STARTED /\ service_state'[r] = STARTED)
                    <=> \E i \in DOMAIN events' : Emitted(i, r, "STARTED")
             /\ \A i \in DOMAIN events' : Emitted(i, r, "STARTED") =>
                    \A d \in HardDeps(r) :
                        \/ service_state[d] = STARTED
                        \/ \E j \in 1..(i - 1) : Emitted(j, d, "STARTED")]_vars
    /\ StartRequested ~> (\A r \in Closure(cfg.subject) : service_state[r] = STARTED)

\* the top of the chain has just announced STARTED, after its dependencies
C16_Witness ==
    /\ cfg.subject = ChainTop /\ commands = 1
    /\ \E i \in DOMAIN events : events[i] = <<ChainTop, "STARTED">>
    /\ \A r \in Closure(ChainTop) : service_state[r] = STARTED
    /\ Closure(ChainTop) = Svc

\* the service states of A, B and C
Chain(a, b, c) == [r \in Svc |-> IF r = ChainTop THEN a ELSE IF r = ChainBottom THEN c ELSE b]

\* the stop request on C has been made in the scenario that started A
StopRequested == cfg.subject = ChainTop /\ commands = 2

\* every step after the stop request leaves the states alone or moves them from one
\* element of order to the next
FollowsOrder(order) ==
    StopRequested' =>
        \/ service_state' = service_state
        \/ \E k \in 1..(Len(order) - 1) :
              service_state = order[k] /\ service_state' = order[k + 1]

\* C17 as stated: from A, B, C all STARTED a stop of C changes the states in the order
\* A STOPPING, A STOPPED, B STOPPING, B STOPPED, C STOPPING, C STOPPED.
C17_StopOrderAsStated ==
    [][FollowsOrder(<< Chain(STARTED, STARTED, STARTED),
                    Chain(STOPPING, STARTED, STARTED),
                    Chain(STOPPED, STARTED, STARTED),
                    Chain(STOPPED, STOPPING, STARTED),
                    Chain(STOPPED, STOPPED, STARTED),
                    Chain(STOPPED, STOPPED, STOPPING),
                    Chain(STOPPED, STOPPED, STOPPED) >>)]_vars

\* C17: from A, B, C all STARTED a stop of C changes the states in the order
\* C STOPPING, B STOPPING, A STOPPING, A STOPPED, B STOPPED, C STOPPED, up to the last.
C17_StopOrder ==
    /\ [][FollowsOrder(<< Chain(STARTED, STARTED, STARTED),
                       Chain(STARTED, STARTED, STOPPING),
                       Chain(STARTED, STOPPING, STOPPING),
                       Chain(STOPPING, STOPPING, STOPPING),
                       Chain(STOPPED, STOPPING, STOPPING),
                       Chain(STOPPED, STOPPED, STOPPING),
                       Chain(STOPPED, STOPPED, STOPPED) >>)]_vars
    /\ StopRequested ~> (service_state = Chain(STOPPED, STOPPED, STOPPED))

\* A and B have stopped and C, the record the request named, is still STOPPING
C17_Witness ==
    /\ StopRequested
    /\ service_state = Chain(STOPPED, STOPPED, STOPPING)
    /\ \E i \in DOMAIN events : events[i] = <<2, "STOPPED">>

\* every record is STOPPED and required by nothing
AllReleased == \A r \in Svc : service_state[r] = STOPPED /\ required_by[r] = 0

\* C18: from A, B, C all STARTED with only A explicitly activated, a stop of C ends
\* with all three STOPPED and required_by = 0 on all three, for good.
C18_StopReleasesChain == StopRequested ~> []AllReleased

\* the tick in which C, the last of the three, stopped has ended
C18_Witness ==
    /\ StopRequested /\ phase = "idle"
    /\ last.svc = ChainBottom
    /\ \E i \in DOMAIN events : events[i] = <<ChainBottom, "STOPPED">>
    /\ AllReleased
    /\ \A r \in Svc : ~start_explicit[r]

\* the step just taken read an errno from the exec-status pipe of r, which was STARTING
ExecFailedNow(r) ==
    \E i \in DOMAIN last.calls : last.calls[i] = <<"fd_event", r, <<TRUE, STARTING>> >>

\* x is STARTING and depends on r directly or through STARTING records
RECURSIVE StartingOn(_, _, _)
StartingOn(x, r, n) ==
    /\ n > 0 /\ service_state[x] = STARTING
    /\ \/ r \in HardDeps(x)
       \/ \E y \in HardDeps(x) : StartingOn(y, r, n - 1)

Announced(evs, r, ev) == \E i \in DOMAIN evs : evs[i] = <<r, ev>>

\* C19: when the exec-status pipe of a STARTING PROCESS record reports an errno, the tick
\* announces FAILEDSTART for the record and for every dependent that was STARTING
\* (its own dependents, and theirs in turn), announces STARTED for none of them, and
\* ends with the record STOPPED.
C19_ExecFailureFailsStart ==
    \A r \in Svc : (cfg.record_type[r] = "PROCESS" /\ ExecFailedNow(r)) =>
        \A ff \in ForkFailures, sf \in SocketFailures, pr \in PidFindings :
            \A e \in {process_queues(Cur(ff, sf, pr))} :
                /\ e.service_state[r] = STOPPED
                /\ \A x \in Svc :
                      (x = r \/ StartingOn(x, r, Cardinality(Svc))) =>
                          /\ Announced(events \o e.events, x, "FAILEDSTART")
                          /\ ~Announced(events \o e.events, x, "STARTED")

\* the pipe of C has just reported an errno while B and A were STARTING on it
C19_Witness ==
    /\ cfg.record_type[ChainBottom] = "PROCESS"
    /\ ExecFailedNow(ChainBottom)
    /\ StartingOn(ChainTop, ChainBottom, Cardinality(Svc))
    /\ Announced(events, ChainBottom, "FAILEDSTART")
    /\ service_state[ChainBottom] = STOPPED

\* r is a PROCESS service with smooth_recovery that is STARTED and meant to be
Recoverable(r) ==
    /\ cfg.record_type[r] = "PROCESS" /\ r \in cfg.smooth_recovery
    /\ service_state[r] = STARTED /\ desired_state[r] = STARTED

\* the restart-rate check of restart_ps_process lets a restart of r pass
WithinRateLimit(r) ==
    ~(/\ max_restart_interval_count # 0
      /\ now - restart_interval_time[r] < restart_interval
      /\ restart_interval_count[r] >= max_restart_interval_count)

\* r has lost its child and waits for the restart timer
Recovering(r) == Recoverable(r) /\ waiting_restart_timer[r]

\* the step just taken forked the command of r in state STARTED
Reforked(r) == \E i \in DOMAIN last.calls : last.calls[i] = <<"fork", r, STARTED>>

\* C20: with no request made, a STARTED PROCESS service with smooth_recovery and
\* desired state STARTED stays STARTED in every step, and no STARTED or STOPPED event
\* is announced for it, unless its child exits outside the restart-rate limit; a child
\* exit within the limit forks again at once or arms the restart timer, and the timer
\* leads to the fork.
C20_SmoothRecoveryStaysStarted ==
    /\ [][\A r \in Svc :
             /\ (Recoverable(r) /\ ~(Handled(r)' > 0 /\ ~WithinRateLimit(r))) =>
                    /\ service_state'[r] = STARTED
                    /\ ~Announced(events', r, "STARTED")
                    /\ ~Announced(events', r, "STOPPED")
             /\ (Recoverable(r) /\ Handled(r)' > 0 /\ WithinRateLimit(r)) =>
                    (Reforked(r)' \/ Recovering(r)')
             /\ (Recovering(r) /\ last'.act = "timer_expiry" /\ last'.svc = r) => Reforked(r)']_vars
    /\ \A r \in Svc : Recovering(r) ~> Reforked(r)

\* the child of a recovering service has just been forked again
C20_Witness ==
    \E r \in Svc :
        /\ Recoverable(r) /\ Reforked(r)
        /\ pid[r] # -1 /\ restart_interval_count[r] > 0
        /\ ~Announced(events, r, "STARTED")

\* the step just taken ran restart_ps_process on r, which refused the restart
RefusedAt(i, r) == i \in DOMAIN last.calls /\ last.calls[i] = <<"restart_ps_process", r, TRUE>>

\* C21: a process service counts at most max_restart_interval_count restarts since
\* restart_interval_time; a restart asked for inside the window with the count at the
\* maximum is refused: no fork follows in the tick, which ends with the service STOPPED.
C21_RestartRateLimited ==
    \A r \in Svc :
        /\ restart_interval_count[r] <= max_restart_interval_count
        /\ \A i \in DOMAIN last.calls : RefusedAt(i, r) =>
              /\ now - restart_interval_time[r] < restart_interval
              /\ restart_interval_count[r] >= max_restart_interval_count
              /\ \A j \in DOMAIN last.calls : (j > i /\ last.calls[j][1] = "fork") => last.calls[j][2] # r
              /\ \A ff \in ForkFailures, sf \in SocketFailures, pr \in PidFindings :
                    \A e \in {process_queues(Cur(ff, sf, pr))} :
                        /\ e.service_state[r] = STOPPED
                        /\ \A j \in DOMAIN e.calls : e.calls[j][1] = "fork" => e.calls[j][2] # r

\* Y has passed the console gate: its command was launched or it is STARTED
PastConsoleGate(y) == pid[y] # -1 \/ service_state[y] = STARTED

\* C22: with X started and then Y, both on the console: while X owns the console Y
\* does not pass the console gate; once both requests are served X owns the console
\* and Y is STARTING and queued for it; X reaches STARTED; and after the stop of X, X
\* is STOPPED without the console and Y is STARTED.
C22_ConsoleHandover ==
    /\ [](ConsoleX \in console_holders => ~PastConsoleGate(ConsoleY))
    /\ []((commands = 2 /\ phase = "idle") =>
             /\ console_holders = {ConsoleX}
             /\ service_state[ConsoleX] \in {STARTING, STARTED}
             /\ service_state[ConsoleY] = STARTING /\ InSeq(ConsoleY, console_queue))
    /\ (commands = 1) ~> (service_state[ConsoleX] = STARTED)
    /\ (commands = 3) ~> [](/\ service_state[ConsoleX] = STOPPED
                            /\ console_holders = {ConsoleY}
                            /\ service_state[ConsoleY] = STARTED)

\* X has stopped and released the console, and Y, which was queued, is STARTED on it
C22_Witness ==
    /\ commands = 3 /\ phase = "idle"
    /\ service_state[ConsoleX] = STOPPED /\ ConsoleX \notin console_holders
    /\ service_state[ConsoleY] = STARTED /\ ConsoleY \in console_holders
    /\ pid[ConsoleY] # -1

\* the calls that the step just taken made for r after its i-th call
CallsAfter(i, fn, r) ==
    {j \in DOMAIN last.calls : j > i /\ last.calls[j][1] = fn /\ last.calls[j][2] = r}

\* C23: when open_socket fails in the start sequence of r, failed_to_start is called
\* once for the attempt, no child is forked and started() is not reached, and the tick
\* ends with r STOPPED.
C23_SocketFailureFailsStart ==
    \A r \in Svc : \A i \in DOMAIN last.calls :
        last.calls[i] = <<"open_socket", r, FALSE>> =>
            /\ Cardinality(CallsAfter(i, "failed_to_start", r)) = 1
            /\ CallsAfter(i, "fork", r) = {}
            /\ CallsAfter(i, "started", r) = {}
            /\ \A ff \in ForkFailures, sf \in SocketFailures, pr \in PidFindings :
                  process_queues(Cur(ff, sf, pr)).service_state[r] = STOPPED

\* F is STARTING and waits on the soft edge e, whose target is no longer STARTING and
\* is not STARTED
SoftBlocked(e) ==
    /\ service_state[getFrom(e)] = STARTING /\ waiting_on[e]
    /\ service_state[getTo(e)] \in {STOPPED, STOPPING}

\* C24: when the target of the soft edge (the first and only one) that F waits on fails to start or otherwise
\* leaves STARTING without becoming STARTED, waiting_on is cleared and F goes on to
\* STARTED.
C24_SoftNeverBlocks ==
    SoftBlocked(1) ~> (~waiting_on[1] /\ service_state[getFrom(1)] = STARTED)

\* the records that are not STOPPED
NotStopped == {r \in Svc : service_state[r] # STOPPED}

\* C25: after every tick the active-service counter equals the number of records whose
\* service_state is not STOPPED; it is zero when every record is STOPPED.
C25_ActiveCountMatches ==
    phase = "idle" => active_services = Cardinality(NotStopped)

\* C26: for every command that names a service, the utility exits with status 1 when
\* the reply to its LOAD/FIND request is NOSERVICE or an unexpected byte; status 0
\* needs the service record to have been found.
C26_NoServiceExitsOne ==
    (ctl.pc = "exited" /\ ctl.load_reply \notin {"NONE", "SERVICERECORD"}) => ctl.ret = 1

\* C27: every tick terminates: once a request or an event has put work on the
\* queues, process_queues reaches the point where all three queues are empty.
C27_TickTerminates ==
    (phase # "idle") ~> (phase = "idle" /\ prop_queue = <<>> /\ start_queue = <<>>
                         /\ stop_queue = <<>>)

\* a tick has ended with a record that stopped() restarted back in STARTED
C27_Witness ==
    /\ phase = "idle" /\ prop_queue = <<>> /\ start_queue = <<>> /\ stop_queue = <<>>
    /\ last.act \in {"do_propagation", "execute_start", "execute_stop"}
    /\ \E r \in Svc : restarting[r] /\ service_state[r] = STARTED

\* the stop request has been applied to the STARTED, unpinned subject
StopApplied ==
    commands = MaxCommands /\ last.act = "stop" /\ last.svc = cfg.subject

\* stopped() has run for r in the step just taken: r was STOPPED, if only until the
\* restart at the end of stopped()
PassedStopped(r) ==
    \E i \in DOMAIN last.calls : last.calls[i][1] = "stopped" /\ last.calls[i][2] = r

\* C28: a STARTED, unpinned service to which stop is applied reaches STOPPED, when
\* signalled children exit and pending events are delivered.
C28_StopReachesStopped ==
    StopApplied ~> (service_state[cfg.subject] = STOPPED \/ PassedStopped(cfg.subject))

\* require() takes r from 0 to 1 while prop_release is pending, or release() takes r
\* from 1 to 0 while prop_require is pending
CancellingCall(r) ==
    \/ last'.act = "require" /\ last'.svc = r /\ required_by[r] = 0 /\ prop_release[r]
    \/ last'.act = "release" /\ last'.svc = r /\ required_by[r] = 1 /\ prop_require[r]

\* the dependencies of r, hard and soft
DepsOf(r) == SeqRange(cfg.depends_on[r]) \cup {getTo(e) : e \in SeqRange(soft_deps(r))}

\* do_propagation runs for r, which has neither prop_require nor prop_release pending
PropagatesIdle(r) ==
    /\ last'.act = "do_propagation" /\ last'.svc = r
    /\ ~prop_require[r] /\ ~prop_release[r]

\* C29: a require (0 to 1) made while prop_release is pending and a release (1 to 0)
\* made while prop_require is pending cancel: both bits are clear afterwards, and the
\* do_propagation of the record that runs with both clear calls neither require() nor
\* release() on a dependency, whose required_by is unchanged.
C29_RequireReleaseCancel ==
    [][\A r \in Svc :
          /\ CancellingCall(r) =>
                ~prop_require'[r] /\ ~prop_release'[r] /\ InSeq(r, prop_queue')
          /\ PropagatesIdle(r) =>
                \A d \in DepsOf(r) :
                    /\ required_by'[d] = required_by[d]
                    /\ \A i \in DOMAIN last'.calls :
                          ~(last'.calls[i][1] = "release" /\ last'.calls[i][2] = d)]_vars

\* require() has just taken a record with dependencies from 0 to 1 and left
\* prop_require clear: prop_release was pending, and the two cancelled
C29_Witness ==
    \E r \in Svc :
        /\ last.act = "require" /\ last.svc = r /\ DepsOf(r) # {}
        /\ required_by[r] = 1 /\ ~prop_require[r] /\ ~prop_release[r]
        /\ InSeq(r, prop_queue)

\* start() is called on r by a start or a wake request
StartCalled(r) == Requested("start", r) \/ Requested("wake", r)

\* can_interrupt_stop() of r as the variables stand
Interruptible(r) == can_interrupt_stop(Cur({}, {}, "OK_TRACK"), r)

\* C30: start() on a STOPPING service whose stop can be interrupted announces
\* STOPCANCELLED and puts the service back in STARTING with waiting_for_deps set;
\* when the stop cannot be interrupted it leaves service_state alone and announces
\* nothing, and the service leaves STOPPING only through stopped().
C30_StartOnStopping ==
    [][\A r \in Svc :
          /\ (StartCalled(r) /\ service_state[r] = STOPPING) =>
                IF Interruptible(r)
                THEN /\ Announced(events', r, "STOPCANCELLED")
                     /\ service_state'[r] = STARTING /\ waiting_for_deps'[r]
                ELSE /\ service_state'[r] = STOPPING
                     /\ \A i \in DOMAIN events' : events'[i][1] # r
          /\ (service_state[r] = STOPPING /\ ~Interruptible(r)
                  /\ service_state'[r] # STOPPING) =>
                \E i \in DOMAIN last'.calls : last'.calls[i] = <<"stopped", r, STOPPING>>]_vars

\* do_stop() is called on r by a stop request
StopCalled(r) == Requested("stop", r)

\* started() has run for r in the step
StartedRan(r) == \E i \in DOMAIN last'.calls : last'.calls[i] = <<"started", r, STARTING>>

EmergencyNow(r) ==
    /\ cfg.record_type[r] \in {"PROCESS", "BGPROCESS"}
    /\ \E i \in DOMAIN last.calls : last.calls[i] = <<"emergency_stop", r, STARTED>>

\* C32: when the child of a STARTED PROCESS or BGPROCESS service exits and the
\* service is not recovered, the handler takes the service through STOPPED, leaves
\* prop_stop and force_stop set on every direct dependent that is not STOPPED, and
\* at the end of the tick no direct dependent is STARTED unless it is pinned.
C32_EmergencyStopCascades ==
    \A r \in Svc : EmergencyNow(r) =>
        /\ \E i \in DOMAIN last.calls : last.calls[i][1] = "stopped" /\ last.calls[i][2] = r
        /\ \A d \in SeqRange(dependents(r)) :
              service_state[d] # STOPPED => prop_stop[d] /\ force_stop[d]
        /\ \A ff \in ForkFailures, sf \in SocketFailures, pr \in PidFindings :
              \A e \in {process_queues(Cur(ff, sf, pr))} :
                  \A d \in SeqRange(dependents(r)) :
                      e.service_state[d] = STARTED => pinned_started[d]

\* emergency_stop has just run for a service with a STARTED direct dependent
C32_Witness ==
    \E r \in Svc :
        /\ EmergencyNow(r)
        /\ \E d \in SeqRange(dependents(r)) : service_state[d] = STARTED

\* stopped() has run for r in the step
StoppedRan(r) ==
    \E i \in DOMAIN last'.calls : last'.calls[i][1] = "stopped" /\ last'.calls[i][2] = r

\* C33: stopped() leaves the activation socket as it is when it restarts the service
\* (the service is not STOPPED when the handler returns) and leaves socket_fd = -1
\* exactly when it does not restart.
C33_SocketKeptOnRestart ==
    [][\A r \in Svc : StoppedRan(r) =>
          IF service_state'[r] = STOPPED
          THEN socket_fd'[r] = -1
          ELSE socket_fd'[r] = socket_fd[r]]_vars

\* stopped() has just restarted a service whose activation socket is open
C33_Witness ==
    \E r \in cfg.socket_path :
        /\ socket_fd[r] # -1 /\ service_state[r] = STARTING
        /\ \E i \in DOMAIN last.calls : last.calls[i][1] = "stopped" /\ last.calls[i][2] = r

\* the start(true) request has just been applied to the subject, which was not STARTED
StartApplied ==
    commands = MaxCommands /\ last.act = "start" /\ last.svc = cfg.subject

\* an event that ends the wait of a control utility for the start of r
StartOutcome(r) ==
    \/ Announced(events, r, "STARTED")
    \/ Announced(events, r, "FAILEDSTART")
    \/ Announced(events, r, "STARTCANCELLED")

\* C34: after a start(true) request on a service that is not STARTED, the engine
\* emits STARTED, FAILEDSTART or STARTCANCELLED for it, when every child reports its
\* exec status or exits and every armed timer fires.
C34_StartIsAnswered ==
    StartApplied ~> StartOutcome(cfg.subject)

\* C35: required_by never becomes negative, and release() is only invoked on a
\* record whose required_by is at least 1.
C35_RequiredByNonNegative ==
    /\ \A r \in Svc : required_by[r] >= 0
    /\ \A i \in DOMAIN last.calls :
         last.calls[i][1] = "release" => last.calls[i][3] >= 1

\* the edges along which service_state may change
StateEdges ==
    { <<STOPPED, STARTING>>, <<STARTING, STARTED>>, <<STARTING, STOPPED>>,
      <<STARTING, STOPPING>>, <<STARTED, STOPPING>>, <<STARTED, STOPPED>>,
      <<STOPPING, STOPPED>>, <<STOPPING, STARTING>> }

\* the changes of service_state made by the last handler, in order
Changes(calls, r) ==
    SelectSeq(calls, LAMBDA c : c[1] = "service_state" /\ c[2] = r)

C37_StoppedNotForced ==
    phase = "idle" => \A r \in Svc : service_state[r] = STOPPED => ~force_stop[r]

\* C38: the restart timer of a service is armed only while the service is STARTING
\* or STARTED, so timer expiry never runs do_restart for a stopping or stopped service.
C38_TimerOnlyWhileStarting ==
    \A r \in Svc :
        (waiting_restart_timer[r] \/ restart_timer[r]) =>
            service_state[r] \in {STARTING, STARTED}

\* C39: after every tick a PROCESS service in state STARTED has a live child or an
\* armed restart timer (or a forked child whose exec status is still awaited).
C39_StartedHasProcess ==
    phase = "idle" =>
        \A r \in Svc :
            (cfg.record_type[r] = "PROCESS" /\ service_state[r] = STARTED) =>
                \/ pid[r] # -1
                \/ waiting_restart_timer[r] /\ restart_timer[r]
                \/ waiting_for_execstat[r]

\* C40: after every tick no record in state STOPPED owns the console, and
\* release_console is only called by the record that owns the console.
C40_ConsoleReleasedByOwner ==
    /\ phase = "idle" =>
          \A r \in Svc : service_state[r] = STOPPED => r \notin console_holders
    /\ \A i \in DOMAIN last.calls :
          last.calls[i][1] = "release_console" => last.calls[i][3]

====
